---- MODULE Spec2Model ----
(***************************************************************************)
(* Verification model of the myblog front end.                             *)
(*                                                                         *)
(* Three independent UI state machines are modelled, each with its own     *)
(* specification:                                                          *)
(*   SpecFeed      MainPage: the feed pager (fetchPosts, infinite scroll,  *)
(*                 sort-mode change)                                       *)
(*   SpecComments  CommentSection: comment pagination and the comment tree *)
(*   SpecLike      DetailPage.handleLike / CommentItem.handleLike          *)
(*                                                                         *)
(* A React event handler, or the continuation of an async function after   *)
(* one await, runs to completion on the UI event loop, so each is one      *)
(* atomic action; the effects a state change schedules run in the same     *)
(* action.  A request in flight is a record in a set; the arrival of its   *)
(* response is a separate action.                                          *)
(***************************************************************************)
EXTENDS Integers, Sequences, FiniteSets, Bags, TLC

\* ------------------------------------------------------------------------
\* Generic helpers
\* ------------------------------------------------------------------------
Min(a, b) == IF a < b THEN a ELSE b

\* s has no element at two positions
NoDuplicates(s) == \A i, j \in 1..Len(s) : s[i] = s[j] => i = j

\* Requests in flight form a bag: a call suspends at an await and resumes
\* when the response arrives.
Suspend(inflight, f) == inflight (+) SetToBag({f})

Resume(inflight, f) == inflight (-) SetToBag({f})

\* ========================================================================
\* FEED PAGER (MainPage)
\* ========================================================================

\* const POSTS_PER_PAGE = 12
POSTS_PER_PAGE == 12

\* type SortOption = 'latest' | 'popular'
SortOption == {"latest", "popular"}

\* Bounds of the feed model: the two sizes of the set of public posts that
\* are explored, and the number of fetchPosts calls one behaviour may issue.
SmallFeed == 5
LargeFeed == 13
MaxFeedFetches == 4

VARIABLES
    numPublic,     \* number of public posts in the collaborator (unchanged)
    mounted,       \* MainPage is mounted and its effects have run
    posts,         \* useState<Post[]>([])      : sequence of post ids
    loading,       \* useState(true)
    loadingMore,   \* useState(false)
    hasMore,       \* useState(true)            : FALSE = exhausted
    sortBy,        \* useState<SortOption>('latest')
    page,          \* useState(0)
    observing,     \* the IntersectionObserver is attached to the sentinel
    feedInflight,  \* fetchPosts calls suspended at an await
    feedIssued,    \* number of fetchPosts calls issued so far
    feedEvent      \* history: the last handler or continuation that ran

feedVars == <<numPublic, mounted, posts, loading, loadingMore, hasMore,
              sortBy, page, observing, feedInflight, feedIssued, feedEvent>>

\* The pager's cursor state.
PagerState == <<posts, page, hasMore>>

\* --- the posts collection of the collaborator ---------------------------
\* Post i was created at time i; the oldest post is the only liked one, so
\* the two sort orders differ.
PostRow(i) == [id |-> i, created_at |-> i,
               likes_count |-> IF i = 1 THEN 1 ELSE 0,
               comments_count |-> 0]

\* .order('created_at', { ascending: false })
LatestBefore(a, b) == PostRow(a).created_at > PostRow(b).created_at

\* .order('likes_count', desc).order('comments_count', desc)
\* .order('created_at', desc)
PopularBefore(a, b) ==
    LET x == PostRow(a)
        y == PostRow(b)
    IN  \/ x.likes_count > y.likes_count
        \/ /\ x.likes_count = y.likes_count
           /\ x.comments_count > y.comments_count
        \/ /\ x.likes_count = y.likes_count
           /\ x.comments_count = y.comments_count
           /\ x.created_at > y.created_at

Before(a, b, sort) ==
    IF sort = "latest" THEN LatestBefore(a, b) ELSE PopularBefore(a, b)

\* The ids in the order of the query: the first row, then the rest.
RECURSIVE OrderedIds(_, _)
OrderedIds(ids, sort) ==
    IF ids = {} THEN <<>>
    ELSE LET a == CHOOSE x \in ids : \A y \in ids \ {x} : Before(x, y, sort)
         IN  <<a>> \o OrderedIds(ids \ {a}, sort)

OrderedPosts(n, sort) == OrderedIds(1..n, sort)

\* .range(pageNum * POSTS_PER_PAGE, (pageNum + 1) * POSTS_PER_PAGE - 1)
QueryPosts(n, pageNum, sort) ==
    SubSeq(OrderedPosts(n, sort),
           pageNum * POSTS_PER_PAGE + 1,
           Min((pageNum + 1) * POSTS_PER_PAGE, n))

\* --- rendering -----------------------------------------------------------
\* The sentinel <div ref={observerTarget}> is rendered only in the branch
\* !loading && posts.length > 0.
SentinelRendered(l, ps) == ~l /\ Len(ps) > 0

\* The observer effect re-runs when one of its dependencies changed and then
\* observes the sentinel if it is rendered; otherwise the old observer stays
\* attached as long as the sentinel stays rendered.
ObserveAfter(nposts, nloading, nloadingMore, nhasMore, nsortBy, npage) ==
    IF <<nhasMore, nloading, nloadingMore, npage, nsortBy>>
         # <<hasMore, loading, loadingMore, page, sortBy>>
    THEN SentinelRendered(nloading, nposts)
    ELSE observing /\ SentinelRendered(nloading, nposts)

\* Commit of one render: the new values of the component state.
FeedCommit(nposts, nloading, nloadingMore, nhasMore, nsortBy, npage) ==
    /\ posts' = nposts
    /\ loading' = nloading
    /\ loadingMore' = nloadingMore
    /\ hasMore' = nhasMore
    /\ sortBy' = nsortBy
    /\ page' = npage
    /\ observing' = ObserveAfter(nposts, nloading, nloadingMore, nhasMore,
                                 nsortBy, npage)

\* A fetchPosts(pageNum, sort, reset) call suspended at its first await.
\* trigger and pre are history: what issued the call and the pager state
\* before that.
NewFetch(pageNum, sort, reset, trigger) ==
    [id |-> feedIssued + 1, pageNum |-> pageNum, sort |-> sort,
     reset |-> reset, stage |-> "posts", rows |-> <<>>,
     trigger |-> trigger, pre |-> PagerState]

\* History record of one step: what ran, for which call, and the pager state
\* it found.
FeedEv(kind, f) == [kind |-> kind, req |-> f, before |-> PagerState]

NoFetch == [id |-> 0, pageNum |-> 0, sort |-> "latest", reset |-> FALSE,
            stage |-> "none", rows |-> <<>>, trigger |-> "none",
            pre |-> <<<<>>, 0, TRUE>>]

\* --- actions -------------------------------------------------------------
\* Mount: the initial-load effect runs fetchPosts(0, sortBy, true); setPage(0).
MainPageMount ==
    /\ ~mounted
    /\ mounted' = TRUE
    /\ LET f == NewFetch(0, sortBy, TRUE, "mount")
       IN  /\ feedInflight' = feedInflight \cup {f}
           /\ feedEvent' = FeedEv("mount", f)
    /\ feedIssued' = feedIssued + 1
    /\ FeedCommit(posts, TRUE, loadingMore, hasMore, sortBy, 0)
    /\ UNCHANGED numPublic

\* The IntersectionObserver callback with entries[0].isIntersecting.
IntersectionSignal ==
    /\ mounted
    /\ observing
    /\ IF hasMore /\ ~loading /\ ~loadingMore
       THEN /\ feedIssued < MaxFeedFetches
            /\ LET nextPage == page + 1
                   f == NewFetch(nextPage, sortBy, FALSE, "signal")
               IN  /\ feedInflight' = feedInflight \cup {f}
                   /\ feedEvent' = FeedEv("signal", f)
                   /\ FeedCommit(posts, loading, TRUE, hasMore, sortBy,
                                 nextPage)
            /\ feedIssued' = feedIssued + 1
       ELSE /\ feedEvent' = FeedEv("signalIgnored", NoFetch)
            /\ UNCHANGED <<posts, loading, loadingMore, hasMore, sortBy,
                           page, observing, feedInflight, feedIssued>>
    /\ UNCHANGED <<numPublic, mounted>>

\* (variant of handleSortChange that forgets setPosts([]))
handleSortChangeKeepsList(newSort) ==
    /\ mounted
    /\ IF newSort # sortBy
       THEN /\ feedIssued < MaxFeedFetches
            /\ LET f == NewFetch(0, newSort, TRUE, "sort")
               IN  /\ feedInflight' = feedInflight \cup {f}
                   /\ feedEvent' = FeedEv("sortChanged", f)
            /\ feedIssued' = feedIssued + 1
            /\ FeedCommit(posts, TRUE, loadingMore, TRUE, newSort, 0)
       ELSE /\ feedEvent' = FeedEv("sortSame", NoFetch)
            /\ UNCHANGED <<posts, loading, loadingMore, hasMore, sortBy,
                           page, observing, feedInflight, feedIssued>>
    /\ UNCHANGED <<numPublic, mounted>>

\* handleSortChange(newSort) and, when sortBy changed, the initial-load
\* effect it triggers: fetchPosts(0, sortBy, true); setPage(0).
handleSortChange(newSort) ==
    /\ mounted
    /\ IF newSort # sortBy
       THEN /\ feedIssued < MaxFeedFetches
            /\ LET f == NewFetch(0, newSort, TRUE, "sort")
               IN  /\ feedInflight' = feedInflight \cup {f}
                   /\ feedEvent' = FeedEv("sortChanged", f)
            /\ feedIssued' = feedIssued + 1
            /\ FeedCommit(<<>>, TRUE, loadingMore, TRUE, newSort, 0)
       ELSE /\ feedEvent' = FeedEv("sortSame", NoFetch)
            /\ UNCHANGED <<posts, loading, loadingMore, hasMore, sortBy,
                           page, observing, feedInflight, feedIssued>>
    /\ UNCHANGED <<numPublic, mounted>>

\* `await query` resolves with rows: fetchPosts goes on to the profiles query.
FetchPostsRows(f) ==
    /\ f \in feedInflight
    /\ f.stage = "posts"
    /\ LET g == [f EXCEPT !.stage = "profiles",
                          !.rows = QueryPosts(numPublic, f.pageNum, f.sort)]
       IN  /\ feedInflight' = (feedInflight \ {f}) \cup {g}
           /\ feedEvent' = FeedEv("rows", g)
    /\ UNCHANGED <<numPublic, mounted, posts, loading, loadingMore, hasMore,
                   sortBy, page, observing, feedIssued>>

\* `await query` resolves with an error: throw, catch, finally.
FetchPostsError(f) ==
    /\ f \in feedInflight
    /\ f.stage = "posts"
    /\ feedInflight' = feedInflight \ {f}
    /\ feedEvent' = FeedEv("fetchFailed", f)
    /\ FeedCommit(posts, FALSE, FALSE, hasMore, sortBy, page)
    /\ UNCHANGED <<numPublic, mounted, feedIssued>>

\* The profiles query resolves: setPosts, setHasMore, finally.
FetchPostsApply(f) ==
    /\ f \in feedInflight
    /\ f.stage = "profiles"
    /\ feedInflight' = feedInflight \ {f}
    /\ feedEvent' = FeedEv("applied", f)
    /\ LET newPosts == f.rows
       IN  FeedCommit(IF f.reset THEN newPosts ELSE posts \o newPosts,
                      FALSE, FALSE, Len(newPosts) = POSTS_PER_PAGE,
                      sortBy, page)
    /\ UNCHANGED <<numPublic, mounted, feedIssued>>

FeedInit ==
    /\ numPublic \in {SmallFeed, LargeFeed}
    /\ mounted = FALSE
    /\ posts = <<>>
    /\ loading = TRUE
    /\ loadingMore = FALSE
    /\ hasMore = TRUE
    /\ sortBy = "latest"
    /\ page = 0
    /\ observing = FALSE
    /\ feedInflight = {}
    /\ feedIssued = 0
    /\ feedEvent = FeedEv("init", NoFetch)

\* ========================================================================
\* COMMENT SECTION (CommentSection)
\* ========================================================================

\* const PAGE_SIZE = 20
PAGE_SIZE == 20

\* Bounds of the comment model: post 1 has PAGE_SIZE + ExtraComments
\* comments (so it has a second page), post 2 has SecondPostComments, and a
\* behaviour issues at most MaxCommentFetches fetchComments calls.
ExtraComments == 1
SecondPostComments == 2
MaxCommentFetches == 4

PostIds == {1, 2}

VARIABLES
    dbComments,    \* the comments collection: sequence of rows, id = index
    csMounted,     \* CommentSection is mounted and its effect has run
    csPostId,      \* the postId prop
    comments,      \* useState<Comment[]>([])
    csLoading,     \* useState(true)
    csHasMore,     \* useState(false)
    csPage,        \* useState(1)
    totalCount,    \* useState(0)
    csInflight,    \* fetchComments calls suspended at an await
    csIssued,      \* number of fetchComments calls issued so far
    csEvent        \* history: the last handler or continuation that ran

csVars == <<dbComments, csMounted, csPostId, comments, csLoading, csHasMore,
            csPage, totalCount, csInflight, csIssued, csEvent>>

\* --- the comments collection of the collaborator ------------------------
\* parent_id = 0 and deleted_at = 0 stand for null.  Comment i was created
\* at time i by user 1.  On post 1 the oldest comment has a reply (comment
\* 2) and the newest comment is a reply to the one before it; on post 2
\* every comment after the first is a reply to the first.
FirstPostComments == PAGE_SIZE + ExtraComments

InitialParent(i) ==
    IF i <= FirstPostComments
    THEN IF i = 2 THEN 1
         ELSE IF i = FirstPostComments /\ i > 3 THEN i - 1 ELSE 0
    ELSE IF i = FirstPostComments + 1 THEN 0 ELSE FirstPostComments + 1

InitialComments ==
    [i \in 1..(FirstPostComments + SecondPostComments) |->
        [id |-> i,
         post_id |-> IF i <= FirstPostComments THEN 1 ELSE 2,
         parent_id |-> InitialParent(i),
         created_at |-> i,
         deleted_at |-> 0,
         user_id |-> 1]]

CommentsOfPost(db, p) == {i \in 1..Len(db) : db[i].post_id = p}

\* .select('*', { count: 'exact', head: true }).eq('post_id', postId)
CountComments(db, p) == Cardinality(CommentsOfPost(db, p))

\* .order('created_at', { ascending: false }): row a precedes row b
NewerFirst(db, a, b) ==
    \/ db[a].created_at > db[b].created_at
    \/ db[a].created_at = db[b].created_at /\ a > b

\* The rows of ids in query order: the newest first, then the rest.
RECURSIVE OrderedFrom(_, _)
OrderedFrom(db, ids) ==
    IF ids = {} THEN <<>>
    ELSE LET a == CHOOSE x \in ids :
                     \A y \in ids \ {x} : NewerFirst(db, x, y)
         IN  <<db[a]>> \o OrderedFrom(db, ids \ {a})

OrderedComments(db, p) == OrderedFrom(db, CommentsOfPost(db, p))

\* const from = (pageNum - 1) * PAGE_SIZE; const to = from + PAGE_SIZE - 1;
\* .eq('post_id', postId).order(...).range(from, to)
QueryComments(db, p, pageNum) ==
    LET all == OrderedComments(db, p)
    IN  SubSeq(all, (pageNum - 1) * PAGE_SIZE + 1,
               Min(pageNum * PAGE_SIZE, Len(all)))

\* --- the comment tree the component renders ------------------------------
\* const topLevelComments = comments.filter(c => !c.parent_id)
IsTopLevel(c) == c.parent_id = 0

topLevelComments(cs) == SelectSeq(cs, IsTopLevel)

\* repliesMap.get(pid): the replies to pid in list order
RepliesOf(cs, pid) ==
    LET IsReplyTo(c) == c.parent_id = pid
    IN  SelectSeq(cs, IsReplyTo)

\* .sort((a, b) => new Date(a.created_at) - new Date(b.created_at)):
\* a stable insertion sort by ascending created_at
RECURSIVE InsertByCreatedAt(_, _)
InsertByCreatedAt(sorted, c) ==
    IF sorted = <<>> THEN <<c>>
    ELSE IF sorted[Len(sorted)].created_at <= c.created_at
         THEN Append(sorted, c)
         ELSE Append(InsertByCreatedAt(SubSeq(sorted, 1, Len(sorted) - 1), c),
                     sorted[Len(sorted)])

RECURSIVE SortByCreatedAt(_)
SortByCreatedAt(s) ==
    IF s = <<>> THEN <<>>
    ELSE InsertByCreatedAt(SortByCreatedAt(SubSeq(s, 1, Len(s) - 1)),
                           s[Len(s)])

\* One rendered <CommentItem>: the comment, the isReply flag and the
\* parentCommentId prop (0 when absent).
RenderedItem(c, isReply, parentCommentId) ==
    [comment |-> c, isReply |-> isReply, parentCommentId |-> parentCommentId]

\* The replies of a group in list order, without the sort.
RenderedRepliesUnsorted(cs, top) ==
    LET rs == RepliesOf(cs, top.id)
    IN  [k \in 1..Len(rs) |-> RenderedItem(rs[k], TRUE, top.id)]

\* repliesMap.get(comment.id).sort(...).map(reply => <CommentItem isReply
\* parentCommentId={comment.id}/>)
RenderedReplies(cs, top) ==
    LET rs == SortByCreatedAt(RepliesOf(cs, top.id))
    IN  [k \in 1..Len(rs) |-> RenderedItem(rs[k], TRUE, top.id)]

\* topLevelComments.map(comment => <CommentItem/> + its replies), flattened
\* in document order.
RECURSIVE RenderGroups(_, _)
RenderGroups(cs, tops) ==
    IF tops = <<>> THEN <<>>
    ELSE <<RenderedItem(Head(tops), FALSE, 0)>>
           \o RenderedReplies(cs, Head(tops))
           \o RenderGroups(cs, Tail(tops))

RenderedTree(cs) == RenderGroups(cs, topLevelComments(cs))

\* --- actions -------------------------------------------------------------
\* A fetchComments(pageNum, append) call of the render whose postId prop was
\* p, suspended at its first await (the count query).  Calls in flight form
\* a bag: two calls with the same arguments can be outstanding together.
NewCommentFetch(p, pageNum, append) ==
    [postId |-> p, pageNum |-> pageNum, append |-> append,
     stage |-> "count", count |-> 0, rows |-> <<>>]

NoCommentFetch ==
    [postId |-> 0, pageNum |-> 0, append |-> FALSE,
     stage |-> "none", count |-> 0, rows |-> <<>>]

\* History record of one step: what ran and for which post's request.
CsEv(kind, f) == [kind |-> kind, postId |-> f.postId]

\* fetchComments starts: setLoading(true), then the count query is sent.
IssueCommentFetch(kind, p, pageNum, append) ==
    /\ csIssued < MaxCommentFetches
    /\ LET f == NewCommentFetch(p, pageNum, append)
       IN  /\ csInflight' = Suspend(csInflight, f)
           /\ csEvent' = CsEv(kind, f)
    /\ csIssued' = csIssued + 1
    /\ csLoading' = TRUE

\* Mount: useEffect(() => { fetchComments(1) }, [postId])
CommentSectionMount ==
    /\ ~csMounted
    /\ csMounted' = TRUE
    /\ IssueCommentFetch("mount", csPostId, 1, FALSE)
    /\ UNCHANGED <<dbComments, csPostId, comments, csHasMore, csPage,
                   totalCount>>

\* The postId prop changes (DetailPage's route parameter): the effect runs
\* fetchComments(1) for the new post; the component state is kept.
PostSwitch(p) ==
    /\ csMounted
    /\ p # csPostId
    /\ csPostId' = p
    /\ IssueCommentFetch("postSwitch", p, 1, FALSE)
    /\ UNCHANGED <<dbComments, csMounted, comments, csHasMore, csPage,
                   totalCount>>

\* The load-more button, rendered when hasMore and disabled while loading.
handleLoadMore ==
    /\ csMounted
    /\ csHasMore
    /\ ~csLoading
    /\ IssueCommentFetch("loadMore", csPostId, csPage + 1, TRUE)
    /\ UNCHANGED <<dbComments, csMounted, csPostId, comments, csHasMore,
                   csPage, totalCount>>

\* handleCommentUpdated, called by a rendered CommentItem after its edit was
\* saved: fetchComments(page).
handleCommentUpdated ==
    /\ csMounted
    /\ \E i \in 1..Len(comments) : IsTopLevel(comments[i])
    /\ IssueCommentFetch("reload", csPostId, csPage, FALSE)
    /\ UNCHANGED <<dbComments, csMounted, csPostId, comments, csHasMore,
                   csPage, totalCount>>

\* The count query resolves (ok) or fails (count is null):
\* setTotalCount(count || 0), then the rows query is sent.
FetchCommentsCount(f, ok) ==
    /\ BagIn(f, csInflight)
    /\ f.stage = "count"
    /\ LET c == IF ok THEN CountComments(dbComments, f.postId) ELSE 0
           g == [f EXCEPT !.stage = "rows", !.count = c]
       IN  /\ csInflight' = Suspend(Resume(csInflight, f), g)
           /\ csEvent' = CsEv("count", g)
           /\ totalCount' = c
    /\ UNCHANGED <<dbComments, csMounted, csPostId, comments, csLoading,
                   csHasMore, csPage, csIssued>>

\* The rows query resolves with data: the profiles query is sent.
FetchCommentsRows(f) ==
    /\ BagIn(f, csInflight)
    /\ f.stage = "rows"
    /\ LET g == [f EXCEPT !.stage = "profiles",
                          !.rows = QueryComments(dbComments, f.postId,
                                                 f.pageNum)]
       IN  /\ csInflight' = Suspend(Resume(csInflight, f), g)
           /\ csEvent' = CsEv("rows", g)
    /\ UNCHANGED <<dbComments, csMounted, csPostId, comments, csLoading,
                   csHasMore, csPage, totalCount, csIssued>>

\* The rows query resolves with an error: throw, catch, finally.
FetchCommentsError(f) ==
    /\ BagIn(f, csInflight)
    /\ f.stage = "rows"
    /\ csInflight' = Resume(csInflight, f)
    /\ csEvent' = CsEv("fetchFailed", f)
    /\ csLoading' = FALSE
    /\ UNCHANGED <<dbComments, csMounted, csPostId, comments, csHasMore,
                   csPage, totalCount, csIssued>>

\* The profiles query resolves: setComments, setPage, setHasMore, finally.
FetchCommentsApply(f) ==
    /\ BagIn(f, csInflight)
    /\ f.stage = "profiles"
    /\ csInflight' = Resume(csInflight, f)
    /\ csEvent' = CsEv("applied", f)
    /\ comments' = IF f.append THEN comments \o f.rows ELSE f.rows
    /\ csPage' = f.pageNum
    /\ csHasMore' = (f.count > f.pageNum * PAGE_SIZE)
    /\ csLoading' = FALSE
    /\ UNCHANGED <<dbComments, csMounted, csPostId, totalCount, csIssued>>

CommentsInit ==
    /\ dbComments = InitialComments
    /\ csMounted = FALSE
    /\ csPostId \in PostIds
    /\ comments = <<>>
    /\ csLoading = TRUE
    /\ csHasMore = FALSE
    /\ csPage = 1
    /\ totalCount = 0
    /\ csInflight = EmptyBag
    /\ csIssued = 0
    /\ csEvent = CsEv("init", NoCommentFetch)

\* ========================================================================
\* COMMENT THREAD (CommentInput, CommentItem reply composer and delete)
\* ========================================================================

\* Bounds of the thread model: the user makes at most MaxGestures clicks on
\* the buttons of the thread (reply, submit, delete, cancel, confirm), and
\* clicks submit or confirm only while fewer than MaxOutstanding requests
\* are awaiting their response.
MaxGestures == 4
MaxOutstanding == 1

VARIABLES
    csUser,          \* useAuth().user: the signed-in user's id, 0 for none
    showReplyInput,  \* ids of the CommentItems whose showReplyInput is true
    showDeleteModal, \* ids of the CommentItems whose showDeleteModal is true
    csMutations,     \* inserts and updates of comments awaiting a response
    csGestures       \* number of clicks made so far

thVars == <<csUser, showReplyInput, showDeleteModal, csMutations, csGestures>>

\* A short thread on post 1: a top-level comment of user 1 with a reply of
\* user 2.
ThreadComments ==
    <<[id |-> 1, post_id |-> 1, parent_id |-> 0, created_at |-> 1,
       deleted_at |-> 0, user_id |-> 1],
      [id |-> 2, post_id |-> 1, parent_id |-> 1, created_at |-> 2,
       deleted_at |-> 0, user_id |-> 2]>>

\* --- what a CommentItem renders ------------------------------------------
RenderedIds(cs) ==
    LET tree == RenderedTree(cs)
    IN  {tree[k].comment.id : k \in 1..Len(tree)}

ItemOf(cs, id) ==
    LET tree == RenderedTree(cs)
    IN  tree[CHOOSE k \in 1..Len(tree) : tree[k].comment.id = id]

\* const isDeleted = !!comment.deleted_at
isDeleted(c) == c.deleted_at # 0

\* const isAuthor = user?.id === comment.user_id
isAuthor(c) == csUser # 0 /\ csUser = c.user_id

\* The body of the item: the fixed placeholder or the comment's content.
ItemBody(c) == IF isDeleted(c) THEN "placeholder" ELSE "content"

\* The enabled action buttons of the item's normal mode, which is not
\* rendered for a deleted comment: like and reply (disabled without a
\* user), edit and delete (author only).
ItemActions(c) ==
    IF isDeleted(c) THEN {}
    ELSE (IF csUser # 0 THEN {"like", "reply"} ELSE {})
           \cup (IF isAuthor(c) THEN {"edit", "delete"} ELSE {})

\* {showReplyInput && !isDeleted && <CommentInput .../>}
ComposerShown(c, open) == c.id \in open /\ ~isDeleted(c)

\* {showDeleteModal && <div> ... confirm button}
ModalShown(c, modals) == c.id \in modals

\* parentId={parentCommentId || comment.id}
ComposerParentId(item) ==
    IF item.parentCommentId # 0 THEN item.parentCommentId
    ELSE item.comment.id

\* A reply composer that passes the id of the comment it was opened on.
ComposerParentIdOwn(item) == item.comment.id

\* --- requests that change the comments collection ------------------------
\* seq numbers the requests; host is the CommentItem whose composer sent an insert (0: the section's
\* own CommentInput); page and postId are those of the render whose
\* callback the continuation calls; detached: the CommentInput that sent it
\* has been unmounted.
CommentMutation(op, host, parentId, target) ==
    [seq |-> csGestures + 1, op |-> op, host |-> host, parentId |-> parentId,
     target |-> target, postId |-> csPostId, page |-> csPage,
     detached |-> FALSE, result |-> "pending"]

\* The requests of the section that await a response.
Outstanding == Cardinality(csMutations) + BagCardinality(csInflight)

\* isSubmitting of the CommentInput mounted for host
Submitting(host) ==
    \E m \in csMutations :
        m.op = "insert" /\ m.host = host /\ ~m.detached

\* Unmounting the CommentInput of the hosts in hs detaches their inserts.
Detach(muts, hs) ==
    {IF m.op = "insert" /\ m.host \in hs
     THEN [m EXCEPT !.detached = TRUE] ELSE m : m \in muts}

\* The reply button of a rendered, not deleted item:
\* onClick={() => setShowReplyInput(!showReplyInput)}
ToggleReplyInput(id) ==
    /\ csMounted
    /\ csUser # 0
    /\ id \in RenderedIds(comments)
    /\ ~isDeleted(ItemOf(comments, id).comment)
    /\ csGestures < MaxGestures
    /\ IF id \in showReplyInput
       THEN /\ showReplyInput' = showReplyInput \ {id}
            /\ csMutations' = Detach(csMutations, {id})
       ELSE /\ showReplyInput' = showReplyInput \cup {id}
            /\ UNCHANGED csMutations
    /\ csGestures' = csGestures + 1
    /\ UNCHANGED csEvent
    /\ UNCHANGED <<dbComments, csMounted, csPostId, comments, csLoading,
                   csHasMore, csPage, totalCount, csInflight, csIssued,
                   csUser, showDeleteModal>>

\* CommentInput.handleSubmit up to its await: the insert is sent with the
\* parentId prop (0 for the section's own composer).
SubmitWith(host, parentId) ==
    /\ csMounted
    /\ csUser # 0
    /\ csGestures < MaxGestures
    /\ Outstanding < MaxOutstanding
    /\ ~Submitting(host)
    /\ host # 0 =>
          /\ host \in RenderedIds(comments)
          /\ ComposerShown(ItemOf(comments, host).comment, showReplyInput)
    /\ csMutations' =
          csMutations \cup {CommentMutation("insert", host, parentId, 0)}
    /\ csGestures' = csGestures + 1
    /\ UNCHANGED csEvent
    /\ UNCHANGED <<dbComments, csMounted, csPostId, comments, csLoading,
                   csHasMore, csPage, totalCount, csInflight, csIssued,
                   csUser, showReplyInput, showDeleteModal>>

\* The section's composer, or the reply composer of item host were it to
\* pass the item's own id.
CommentInputSubmitOwnId(host) ==
    SubmitWith(host, IF host = 0 THEN 0
                     ELSE ComposerParentIdOwn(ItemOf(comments, host)))

\* The section's composer (no parentId), or the reply composer of item
\* host, which passes parentId={parentCommentId || comment.id}.
CommentInputSubmit(host) ==
    SubmitWith(host, IF host = 0 THEN 0
                     ELSE ComposerParentId(ItemOf(comments, host)))

\* The delete button of a rendered, not deleted item of the author:
\* onClick={() => setShowDeleteModal(true)}
OpenDeleteModal(id) ==
    /\ csMounted
    /\ id \in RenderedIds(comments)
    /\ "delete" \in ItemActions(ItemOf(comments, id).comment)
    /\ id \notin showDeleteModal
    /\ showDeleteModal' = showDeleteModal \cup {id}
    /\ csGestures < MaxGestures
    /\ csGestures' = csGestures + 1
    /\ UNCHANGED csEvent
    /\ UNCHANGED <<dbComments, csMounted, csPostId, comments, csLoading,
                   csHasMore, csPage, totalCount, csInflight, csIssued,
                   csUser, showReplyInput, csMutations>>

\* The modal's cancel button: onClick={() => setShowDeleteModal(false)}
CancelDeleteModal(id) ==
    /\ csMounted
    /\ id \in showDeleteModal
    /\ showDeleteModal' = showDeleteModal \ {id}
    /\ csGestures < MaxGestures
    /\ csGestures' = csGestures + 1
    /\ UNCHANGED csEvent
    /\ UNCHANGED <<dbComments, csMounted, csPostId, comments, csLoading,
                   csHasMore, csPage, totalCount, csInflight, csIssued,
                   csUser, showReplyInput, csMutations>>

\* The modal's confirm button: setShowDeleteModal(false); handleDelete()
\* up to its await: the update of deleted_at is sent.
ConfirmDelete(id) ==
    /\ csMounted
    /\ id \in showDeleteModal
    /\ csGestures < MaxGestures
    /\ Outstanding < MaxOutstanding
    /\ showDeleteModal' = showDeleteModal \ {id}
    /\ csMutations' =
           csMutations \cup {CommentMutation("delete", 0, 0, id)}
    /\ csGestures' = csGestures + 1
    /\ UNCHANGED csEvent
    /\ UNCHANGED <<dbComments, csMounted, csPostId, comments, csLoading,
                   csHasMore, csPage, totalCount, csInflight, csIssued,
                   csUser, showReplyInput>>

\* The collaborator executes a request: .insert([{post_id, user_id, content,
\* parent_id}]) adds a row, .update({deleted_at}).eq('id', comment.id) sets
\* the timestamp of the row; or the request fails and changes nothing.
CommentServer(m, fails) ==
    /\ m \in csMutations
    /\ m.result = "pending"
    /\ LET now == Len(dbComments) + 1
       IN  dbComments' =
             IF fails THEN dbComments
             ELSE IF m.op = "insert"
                  THEN Append(dbComments,
                              [id |-> now, post_id |-> m.postId,
                               parent_id |-> m.parentId, created_at |-> now,
                               deleted_at |-> 0, user_id |-> csUser])
                  ELSE [dbComments EXCEPT ![m.target].deleted_at = now]
    /\ csMutations' =
           (csMutations \ {m})
             \cup {[m EXCEPT !.result = IF fails THEN "failed" ELSE "ok"]}
    /\ UNCHANGED csEvent
    /\ UNCHANGED <<csMounted, csPostId, comments, csLoading, csHasMore,
                   csPage, totalCount, csInflight, csIssued, csUser,
                   showReplyInput, showDeleteModal, csGestures>>

\* CommentInput.handleSubmit or CommentItem.handleDelete after its await
\* fails: throw, catch, toast.error.
CommentMutationFailed(m) ==
    /\ m \in csMutations
    /\ m.result = "failed"
    /\ csMutations' = csMutations \ {m}
    /\ UNCHANGED csEvent
    /\ UNCHANGED <<dbComments, csMounted, csPostId, comments, csLoading,
                   csHasMore, csPage, totalCount, csInflight, csIssued,
                   csUser, showReplyInput, showDeleteModal, csGestures>>

\* CommentInput.handleSubmit after its await succeeds: onCommentAdded().
\* The section's input calls handleCommentAdded: fetchComments(1); a reply
\* composer calls setShowReplyInput(false) and onCommentUpdated:
\* fetchComments(page).
CommentInputResume(m) ==
    /\ m \in csMutations
    /\ m.op = "insert"
    /\ m.result = "ok"
    /\ showReplyInput' = showReplyInput \ {m.host}
    /\ csMutations' = Detach(csMutations \ {m}, {m.host} \ {0})
    /\ IssueCommentFetch("reload", m.postId,
                         IF m.host = 0 THEN 1 ELSE m.page, FALSE)
    /\ UNCHANGED <<dbComments, csMounted, csPostId, comments, csHasMore,
                   csPage, totalCount, csUser, showDeleteModal, csGestures>>

\* CommentItem.handleDelete after its await succeeds: onCommentDeleted(),
\* which is handleCommentDeleted: fetchComments(page).
handleDeleteResume(m) ==
    /\ m \in csMutations
    /\ m.op = "delete"
    /\ m.result = "ok"
    /\ csMutations' = csMutations \ {m}
    /\ IssueCommentFetch("reload", m.postId, m.page, FALSE)
    /\ UNCHANGED <<dbComments, csMounted, csPostId, comments, csHasMore,
                   csPage, totalCount, csUser, showReplyInput,
                   showDeleteModal, csGestures>>

\* The profiles query of a fetch resolves in the thread: the list is set
\* and the CommentItems no longer rendered are unmounted with their state.
ThreadFetchApply(f) ==
    /\ FetchCommentsApply(f)
    /\ LET kept == RenderedIds(comments')
       IN  /\ showReplyInput' = showReplyInput \cap kept
           /\ showDeleteModal' = showDeleteModal \cap kept
           /\ csMutations' = Detach(csMutations, showReplyInput \ kept)
    /\ UNCHANGED <<csUser, csGestures>>

ThreadUiIdle ==
    /\ showReplyInput = {}
    /\ showDeleteModal = {}
    /\ csMutations = {}
    /\ csGestures = 0

ThreadIdle == ThreadUiIdle /\ csUser = 0

\* The thread before CommentSection mounts, for a visitor or for user 1.
ThreadInit ==
    /\ dbComments = ThreadComments
    /\ csMounted = FALSE
    /\ csPostId = 1
    /\ comments = <<>>
    /\ csLoading = TRUE
    /\ csHasMore = FALSE
    /\ csPage = 1
    /\ totalCount = 0
    /\ csInflight = EmptyBag
    /\ csIssued = 0
    /\ csEvent = CsEv("init", NoCommentFetch)
    /\ ThreadUiIdle
    /\ csUser \in {0, 1}

\* ========================================================================
\* LIKE TOGGLE (DetailPage.handleLike, CommentItem.handleLike)
\* ========================================================================

\* Bounds of the like model: the largest like count shown at load and the
\* number of clicks on the like button in one behaviour.
MaxInitialLikes == 2
MaxLikeClicks == 3

LikeVariants == {"post", "comment"}

VARIABLES
    likeVariant,   \* which component: DetailPage ("post") or CommentItem
    likeUser,      \* useAuth().user is non-null
    likeRecord,    \* the join record (user, target) exists in the collaborator
    likeMounted,   \* the component is mounted and its effect has run
    isLiked,       \* useState(false)
    likesCount,    \* the displayed count
    likeNotice,    \* the toast shown by the last step ("none" if none)
    likeInflight,  \* checkIfLiked / handleLike calls suspended at their await
    likeClicks,    \* number of clicks so far
    likeLog        \* history: clicks and arrived responses, oldest first

likeVars == <<likeVariant, likeUser, likeRecord, likeMounted, isLiked,
              likesCount, likeNotice, likeInflight, likeClicks, likeLog>>

\* A request: op is "check", "insert" or "delete"; result is "pending" until
\* the collaborator has processed it.
LikeRequest(op) == [op |-> op, result |-> "pending"]

\* History entries: the state the step found (displayed count, liked flag)
\* and, for a click, whether no other toggle was outstanding.
LikeClicked(op) ==
    [ev |-> "click", op |-> op, result |-> "pending", count |-> likesCount,
     liked |-> isLiked,
     quiet |-> (\A r \in BagToSet(likeInflight) : r.op = "check")]

LikeArrived(r) ==
    [ev |-> "done", op |-> r.op, result |-> r.result, count |-> likesCount,
     liked |-> isLiked, quiet |-> FALSE]

\* --- the collaborator ----------------------------------------------------
\* The collaborator processes a request that is in flight.  A select finds
\* the record or not; an insert of an existing record is rejected by the
\* uniqueness constraint (code 23505); any request may fail otherwise, with
\* no effect, which the collaborator reports as an error value.
LikeServer(r, fails) ==
    /\ BagIn(r, likeInflight)
    /\ r.result = "pending"
    /\ LET res == IF fails THEN "failed"
                  ELSE IF r.op = "check"
                       THEN IF likeRecord THEN "found" ELSE "absent"
                  ELSE IF r.op = "insert" /\ likeRecord THEN "conflict"
                  ELSE "ok"
       IN  /\ likeInflight' = Suspend(Resume(likeInflight, r),
                                      [r EXCEPT !.result = res])
           /\ likeRecord' = IF res # "ok" THEN likeRecord
                            ELSE (r.op = "insert")
    /\ UNCHANGED <<likeVariant, likeUser, likeMounted, isLiked, likesCount,
                   likeNotice, likeClicks, likeLog>>

\* --- the component -------------------------------------------------------
\* Mount: the effect runs checkIfLiked(), which returns at once without a
\* user.  (DetailPage: the post is loaded and setLikesCount has run.)
LikeMount ==
    /\ ~likeMounted
    /\ likeMounted' = TRUE
    /\ likeInflight' = IF likeUser
                       THEN Suspend(likeInflight, LikeRequest("check"))
                       ELSE likeInflight
    /\ likeNotice' = "none"
    /\ UNCHANGED <<likeVariant, likeUser, likeRecord, isLiked, likesCount,
                   likeClicks, likeLog>>

\* checkIfLiked resumes.  DetailPage: if (error) throw error, else
\* setIsLiked(!!data).  CommentItem: setIsLiked(!!data), data is null on error.
CheckIfLikedResume(r) ==
    /\ BagIn(r, likeInflight)
    /\ r.op = "check"
    /\ r.result # "pending"
    /\ likeInflight' = Resume(likeInflight, r)
    /\ isLiked' = IF r.result = "failed" /\ likeVariant = "post"
                  THEN isLiked
                  ELSE (r.result = "found")
    /\ likeNotice' = "none"
    /\ likeLog' = Append(likeLog, LikeArrived(r))
    /\ UNCHANGED <<likeVariant, likeUser, likeRecord, likeMounted,
                   likesCount, likeClicks>>

\* handleLike up to its await: without a user a notice and return; else the
\* delete or the insert is sent, chosen by the isLiked of this render.
handleLike ==
    /\ likeMounted
    /\ likeClicks < MaxLikeClicks
    /\ likeClicks' = likeClicks + 1
    /\ IF ~likeUser
       THEN /\ likeNotice' = "loginRequired"
            /\ UNCHANGED <<likeInflight, likeLog>>
       ELSE LET op == IF isLiked THEN "delete" ELSE "insert"
            IN  /\ likeInflight' = Suspend(likeInflight, LikeRequest(op))
                /\ likeLog' = Append(likeLog, LikeClicked(op))
                /\ likeNotice' = "none"
    /\ UNCHANGED <<likeVariant, likeUser, likeRecord, likeMounted, isLiked,
                   likesCount>>

\* (variant of DetailPageLikeResume whose unlike forgets the decrement)
DetailPageLikeResumeNoDecrement(r) ==
    /\ likeVariant = "post"
    /\ BagIn(r, likeInflight)
    /\ r.op \in {"insert", "delete"}
    /\ r.result # "pending"
    /\ likeInflight' = Resume(likeInflight, r)
    /\ likeLog' = Append(likeLog, LikeArrived(r))
    /\ IF r.result = "failed"
       THEN /\ likeNotice' = "failure"
            /\ UNCHANGED <<isLiked, likesCount>>
       ELSE IF r.op = "delete"
       THEN /\ isLiked' = FALSE
            /\ likesCount' = likesCount
            /\ likeNotice' = "none"
       ELSE IF r.result = "conflict"
       THEN /\ isLiked' = TRUE
            /\ likeNotice' = "alreadyLiked"
            /\ UNCHANGED likesCount
       ELSE /\ isLiked' = TRUE
            /\ likesCount' = likesCount + 1
            /\ likeNotice' = "none"
    /\ UNCHANGED <<likeVariant, likeUser, likeRecord, likeMounted, likeClicks>>

\* DetailPage.handleLike resumes after its await.
\*   delete: if (error) throw; setIsLiked(false); setLikesCount(prev - 1)
\*   insert: error 23505 -> toast 'already liked', setIsLiked(true);
\*           other error -> throw; else setIsLiked(true), prev + 1
\*   catch:  toast.error(failure)
DetailPageLikeResume(r) ==
    /\ likeVariant = "post"
    /\ BagIn(r, likeInflight)
    /\ r.op \in {"insert", "delete"}
    /\ r.result # "pending"
    /\ likeInflight' = Resume(likeInflight, r)
    /\ likeLog' = Append(likeLog, LikeArrived(r))
    /\ IF r.result = "failed"
       THEN /\ likeNotice' = "failure"
            /\ UNCHANGED <<isLiked, likesCount>>
       ELSE IF r.op = "delete"
       THEN /\ isLiked' = FALSE
            /\ likesCount' = likesCount - 1
            /\ likeNotice' = "none"
       ELSE IF r.result = "conflict"
       THEN /\ isLiked' = TRUE
            /\ likeNotice' = "alreadyLiked"
            /\ UNCHANGED likesCount
       ELSE /\ isLiked' = TRUE
            /\ likesCount' = likesCount + 1
            /\ likeNotice' = "none"
    /\ UNCHANGED <<likeVariant, likeUser, likeRecord, likeMounted, likeClicks>>

\* CommentItem.handleLike resumes after its await.  The result's error is
\* not read: whatever the outcome,
\*   delete: setIsLiked(false); setLikesCount(prev - 1)
\*   insert: setIsLiked(true);  setLikesCount(prev + 1)
CommentItemLikeResume(r) ==
    /\ likeVariant = "comment"
    /\ BagIn(r, likeInflight)
    /\ r.op \in {"insert", "delete"}
    /\ r.result # "pending"
    /\ likeInflight' = Resume(likeInflight, r)
    /\ likeLog' = Append(likeLog, LikeArrived(r))
    /\ likeNotice' = "none"
    /\ IF r.op = "delete"
       THEN /\ isLiked' = FALSE
            /\ likesCount' = likesCount - 1
       ELSE /\ isLiked' = TRUE
            /\ likesCount' = likesCount + 1
    /\ UNCHANGED <<likeVariant, likeUser, likeRecord, likeMounted, likeClicks>>

\* The count shown at load includes the user's own like if there is one.
LikeInit ==
    /\ likeVariant \in LikeVariants
    /\ likeUser \in BOOLEAN
    /\ likeRecord \in BOOLEAN
    /\ likeUser = FALSE => likeRecord = FALSE
    /\ likeMounted = FALSE
    /\ isLiked = FALSE
    /\ likesCount \in 0..MaxInitialLikes
    /\ likeRecord => likesCount >= 1
    /\ likeNotice = "none"
    /\ likeInflight = EmptyBag
    /\ likeClicks = 0
    /\ likeLog = <<>>

\* ========================================================================
\* STRINGS
\* ========================================================================
\* A string is a sequence of characters; a character is a one-character
\* string, and "U+AC00" stands for the Hangul syllable of that code point.

\* All strings over alphabet A of length at most n.
Strs(A, n) == UNION {[1..k -> A] : k \in 0..n}

RECURSIVE Concat(_)
Concat(ss) == IF ss = <<>> THEN <<>> ELSE Head(ss) \o Concat(Tail(ss))

\* White space as String.prototype.trim and the class \s see it.
WhiteSpace == {" "}

\* String.prototype.toUpperCase / toLowerCase on one character.
ToUpper(c) ==
    CASE c = "a" -> "A" [] c = "c" -> "C" [] c = "d" -> "D"
      [] c = "e" -> "E" [] c = "f" -> "F" [] c = "h" -> "H"
      [] c = "l" -> "L" [] c = "o" -> "O" [] c = "r" -> "R"
      [] c = "s" -> "S" [] c = "t" -> "T" [] c = "w" -> "W"
      [] OTHER -> c

ToLower(c) ==
    CASE c = "A" -> "a" [] c = "C" -> "c" [] c = "D" -> "d"
      [] c = "E" -> "e" [] c = "F" -> "f" [] c = "H" -> "h"
      [] c = "L" -> "l" [] c = "O" -> "o" [] c = "R" -> "r"
      [] c = "S" -> "s" [] c = "T" -> "t" [] c = "W" -> "w"
      [] OTHER -> c

\* !s.trim(): the string is empty or all white space.
IsBlank(s) == \A i \in 1..Len(s) : s[i] \in WhiteSpace

\* ========================================================================
\* HIGHLIGHT (highlightText)
\* ========================================================================

\* Bounds: the texts and queries tried are all strings over HlAlphabet of
\* at most MaxTextLen and MaxQueryLen characters, and the example of the
\* specification.
MaxTextLen == 3
MaxQueryLen == 2

HlAlphabet == {"a", "A", ".", " "}

TheCatSat == <<"t", "h", "e", " ", "c", "a", "t", " ", "s", "a", "t">>

At == <<"a", "t">>

VARIABLES
    hlText,    \* the text argument
    hlQuery,   \* the query argument
    hlParts,   \* the array returned
    hlDone     \* highlightText has returned

hlVars == <<hlText, hlQuery, hlParts, hlDone>>

\* A plain span (a string in the array) and a highlighted span
\* ({ type: 'highlight', text }).
PlainSpan(s) == [type |-> "plain", text |-> s]

HighlightSpan(s) == [type |-> "highlight", text |-> s]

\* The characters of the class [.*+?^${}()|[\]\\]
RegExpSpecial ==
    {".", "*", "+", "?", "^", "$", "{", "}", "(", ")", "|", "[", "]", "\\"}

\* A query used as the pattern without escaping.
EscapeRegExpNone(q) == q

\* query.replace(/[.*+?^${}()|[\]\\]/g, '\\$&'): a backslash before every
\* special character.
RECURSIVE EscapeRegExp(_)
EscapeRegExp(q) ==
    IF q = <<>> THEN <<>>
    ELSE (IF Head(q) \in RegExpSpecial THEN <<"\\", Head(q)>>
          ELSE <<Head(q)>>) \o EscapeRegExp(Tail(q))

\* new RegExp(`(${source})`, 'gi') read as a sequence of atoms: a backslash
\* makes the next character a literal, an unescaped dot matches any
\* character, every other character is a literal.
RECURSIVE PatternAtoms(_)
PatternAtoms(src) ==
    IF src = <<>> THEN <<>>
    ELSE IF Head(src) = "\\" /\ Len(src) >= 2
         THEN <<[any |-> FALSE, ch |-> src[2]]>>
                \o PatternAtoms(SubSeq(src, 3, Len(src)))
         ELSE <<[any |-> Head(src) = ".", ch |-> Head(src)]>>
                \o PatternAtoms(Tail(src))

\* One atom against one character under the i flag.
AtomMatches(atom, c) == atom.any \/ ToUpper(atom.ch) = ToUpper(c)

\* The pattern matches the text at the 0-based offset off.
MatchAt(atoms, text, off) ==
    /\ off + Len(atoms) <= Len(text)
    /\ \A k \in 1..Len(atoms) : AtomMatches(atoms[k], text[off + k])

\* The offset of the first match at or after from, or -1.
NextMatch(atoms, text, from) ==
    LET offs == {off \in from..Len(text) : MatchAt(atoms, text, off)}
    IN  IF offs = {} THEN -1
        ELSE CHOOSE off \in offs : \A o \in offs : off <= o

\* text.replace(regex, (match, _p1, offset) => {...}): the callback runs
\* for every match of the global pattern, left to right.
RECURSIVE ReplaceScan(_, _, _, _, _)
ReplaceScan(text, atoms, from, lastIndex, parts) ==
    LET off == NextMatch(atoms, text, from)
    IN  IF off = -1 \/ atoms = <<>>
        THEN [parts |-> parts, lastIndex |-> lastIndex]
        ELSE LET match == SubSeq(text, off + 1, off + Len(atoms))
                 before == IF off > lastIndex
                           THEN Append(parts,
                                       PlainSpan(SubSeq(text, lastIndex + 1,
                                                        off)))
                           ELSE parts
             IN  ReplaceScan(text, atoms, off + Len(atoms),
                             off + Len(atoms),
                             Append(before, HighlightSpan(match)))

\* highlightText that leaves out the text after the last match when
\* keepRest is false.
HighlightWith(text, query, keepRest) ==
    IF IsBlank(query) THEN <<PlainSpan(text)>>
    ELSE LET r == ReplaceScan(text, PatternAtoms(EscapeRegExp(query)),
                              0, 0, <<>>)
             parts == IF keepRest /\ r.lastIndex < Len(text)
                      THEN Append(r.parts,
                                  PlainSpan(SubSeq(text, r.lastIndex + 1,
                                                   Len(text))))
                      ELSE r.parts
         IN  IF Len(parts) > 0 THEN parts ELSE <<PlainSpan(text)>>

highlightTextDropsRest(text, query) == HighlightWith(text, query, FALSE)

highlightText(text, query) == HighlightWith(text, query, TRUE)

\* A caller renders highlightText(text, query).
HighlightCall ==
    /\ ~hlDone
    /\ hlParts' = highlightText(hlText, hlQuery)
    /\ hlDone' = TRUE
    /\ UNCHANGED <<hlText, hlQuery>>

HighlightInputs ==
    (Strs(HlAlphabet, MaxTextLen) \X Strs(HlAlphabet, MaxQueryLen))
      \cup {<<TheCatSat, At>>}

HighlightInit ==
    /\ \E inp \in HighlightInputs : hlText = inp[1] /\ hlQuery = inp[2]
    /\ hlParts = <<>>
    /\ hlDone = FALSE

HighlightIdle == HighlightInit /\ hlText = <<>> /\ hlQuery = <<>>

\* ========================================================================
\* SLUG (generateSlug)
\* ========================================================================

\* .slice(0, 50)
SLUG_MAX_LENGTH == 50

\* Bounds: the titles tried are all strings over SlugAlphabet of at most
\* MaxTitleLen characters and the examples below; generateSlug is called at
\* most MaxSlugCalls times on a title.
MaxTitleLen == 3
MaxSlugCalls == 2

SlugAlphabet == {"a", "A", " ", "-", "!"}

\* The length of the long titles of the specification's example.
LongTitleLen == 200

HelloWorldFoo ==
    <<"H", "e", "l", "l", "o", ",", " ", "W", "o", "r", "l", "d", "!", " ",
      " ", "F", "o", "o">>

hello_world_foo ==
    <<"h", "e", "l", "l", "o", "-", "w", "o", "r", "l", "d", "-", "f", "o",
      "o">>

\* Long titles: letters only, punctuation only, and four-letter words.
LongTitleLetters == [i \in 1..LongTitleLen |-> "a"]

LongTitleMarks == [i \in 1..LongTitleLen |-> "!"]

LongTitleWords == [i \in 1..LongTitleLen |-> IF i % 5 = 0 THEN " " ELSE "a"]

HangulTitle == <<"U+AC00", " ", "A", "?">>

VARIABLES
    slugTitle,    \* the title argument
    slugResults   \* the results of the calls made so far

slugVars == <<slugTitle, slugResults>>

\* The class \w: [A-Za-z0-9_]
WordChars ==
    {"a", "c", "d", "e", "f", "h", "l", "o", "r", "s", "t", "w",
     "A", "C", "D", "E", "F", "H", "L", "O", "R", "S", "T", "W",
     "0", "1", "2", "3", "4", "5", "6", "7", "8", "9", "_"}

\* The range 가-힣
Hangul == {"U+AC00"}


\* .toLowerCase()
toLowerCase(s) == [i \in 1..Len(s) |-> ToLower(s[i])]

\* s without its longest prefix and its longest suffix of characters of X.
StripEnds(s, X) ==
    LET kept == {i \in 1..Len(s) : s[i] \notin X}
    IN  IF kept = {} THEN <<>>
        ELSE SubSeq(s, CHOOSE i \in kept : \A j \in kept : i <= j,
                       CHOOSE i \in kept : \A j \in kept : i >= j)

\* .trim(): white space removed at both ends
trim(s) == StripEnds(s, WhiteSpace)

\* .replace(/[^\w\s가-힣-]/g, '')
KeptInSlug(c) == c \in WordChars \cup WhiteSpace \cup Hangul \cup {"-"}

RemoveSpecial(s) == SelectSeq(s, KeptInSlug)

\* .replace(/X+/g, '-') for a class X: every maximal run of characters of
\* X becomes one hyphen (the last character of the run is replaced, the
\* ones before it are dropped).
ReplaceRuns(s, X) ==
    LET marked == [i \in 1..Len(s) |->
                     IF s[i] \notin X THEN [keep |-> TRUE, c |-> s[i]]
                     ELSE [keep |-> i = Len(s) \/ s[i + 1] \notin X,
                           c |-> "-"]]
        kept == SelectSeq(marked, LAMBDA m : m.keep)
    IN  [i \in 1..Len(kept) |-> kept[i].c]

\* .replace(/^-+|-+$/g, '')
StripHyphens(s) == StripEnds(s, {"-"})

\* .slice(0, n)
SliceTo(s, n) == SubSeq(s, 1, Min(n, Len(s)))

\* The chain of generateSlug before the final slice.
SlugBeforeSlice(title) ==
    StripHyphens(
        ReplaceRuns(ReplaceRuns(RemoveSpecial(trim(toLowerCase(title))),
                                WhiteSpace),
                    {"-"}))

\* generateSlug without the length limit.
generateSlugUnlimited(title) == SlugBeforeSlice(title)

generateSlug(title) == SliceTo(SlugBeforeSlice(title), SLUG_MAX_LENGTH)

\* A caller computes generateSlug(title).
GenerateSlugCall ==
    /\ Len(slugResults) < MaxSlugCalls
    /\ slugResults' = Append(slugResults, generateSlug(slugTitle))
    /\ UNCHANGED slugTitle

SlugTitles ==
    Strs(SlugAlphabet, MaxTitleLen)
      \cup {HelloWorldFoo, LongTitleLetters, LongTitleMarks, LongTitleWords,
            HangulTitle}

SlugInit ==
    /\ slugTitle \in SlugTitles
    /\ slugResults = <<>>

SlugIdle == SlugInit /\ slugTitle = <<>>

\* ========================================================================
\* NAVIGATION (routes of App)
\* ========================================================================
\* Navigating between routes unmounts the page shown and mounts a fresh
\* instance of the next one.  The requests of an unmounted instance are not
\* cancelled: their responses still arrive and their continuations run.

\* Bound: navigations between the main page and a post's page.
MaxNavigations == 2

VARIABLES
    navInstance,  \* navigations so far: numbers the page instances
    navOrphans,   \* requests of unmounted MainPage / CommentSection instances
    navEvent      \* history: the last arrival at an unmounted instance

navVars == <<navInstance, navOrphans, navEvent>>

\* ========================================================================
\* POST PAGES (WritePage, EditPage, DetailPage, MyPage)
\* ========================================================================
\* One of the pages is shown, to the visitor ppUser (0: not signed in), over
\* the posts table.  Every insert, update and delete the client issues on
\* the table is recorded in postWrites.

\* Bounds.
MaxTitleEdits == 2     \* changes of the title field
MaxSubmits == 2        \* submissions of the write / edit form

\* The visitors who can sign in.
Users == {1, 2}

\* Titles typed into the form.
WriteTitles == {<<"a">>, <<"A", "!">>, <<"c">>, <<"d">>}

\* Values of Math.random().toString(36).substring(2, 8).
RandomSuffixes == {<<"r">>, <<"s">>}

\* The posts table at the start: post 1 by user 1, post 2 by user 2.
InitialPosts ==
    << [id |-> 1, exists |-> TRUE, author_id |-> 1, title |-> <<"a">>,
        slug |-> <<"a">>, views |-> 0],
       [id |-> 2, exists |-> TRUE, author_id |-> 2, title |-> <<"c">>,
        slug |-> <<"c">>, views |-> 0] >>

\* No row (data: null).
NoPost == [id |-> 0]

VARIABLES
    dbPosts,     \* the posts table, indexed by id
    ppUser,      \* useAuth().user (0: none)
    ppPage,      \* the page shown: "write", "edit", "detail", "mypage",
                 \* or "away" once the page has navigated away
    ppId,        \* useParams().id
    ppMounted,   \* the page's mount effects have run
    postWrites,  \* the writes on posts issued so far, in order
    wpTitle,     \* WritePage / EditPage: title
    wpSlug,      \* slug
    wpSaving,    \* loading (WritePage), saving (EditPage)
    wpLoading,   \* EditPage: loading
    wpPost,      \* EditPage: post
    wpInflight,  \* requests of the form awaiting an answer
    wpTimer,     \* the setTimeout that navigates after a save is pending
    wpEdits,     \* title changes so far
    wpSubmits    \* submissions so far

ppVars == <<dbPosts, ppUser, ppPage, ppId, ppMounted, postWrites>>

wpVars ==
    <<wpTitle, wpSlug, wpSaving, wpLoading, wpPost, wpInflight, wpTimer,
      wpEdits, wpSubmits>>

\* The rows a query on posts sees.
PostIdsInDb == {i \in DOMAIN dbPosts : dbPosts[i].exists}

\* .eq('id', id).single() / maybeSingle()
PostById(id) == IF id \in PostIdsInDb THEN dbPosts[id] ELSE NoPost

\* The author of post id, deleted or not (0: there never was such a post).
AuthorOf(id) == IF id \in DOMAIN dbPosts THEN dbPosts[id].author_id ELSE 0

\* A write on posts as issued by the client.
PostWrite(op, by, id, slug, looked, collided) ==
    [op |-> op, by |-> by, id |-> id, user |-> ppUser,
     author |-> AuthorOf(id), slug |-> slug, looked |-> looked,
     collided |-> collided]

\* The title effect: a non-empty title (on EditPage: one that differs from
\* the loaded post's) regenerates the slug.
TitleEffectSlug(title) ==
    IF /\ title # <<>>
       /\ ppPage = "edit" => (wpPost = NoPost \/ title # wpPost.title)
    THEN generateSlug(title)
    ELSE wpSlug

\* The form of WritePage, or of EditPage once the post is loaded, is shown.
FormShown ==
    /\ ppMounted
    /\ \/ ppPage = "write"
       \/ ppPage = "edit" /\ ~wpLoading /\ wpPost # NoPost

\* WritePage mounts: nothing to load.
WritePageMount ==
    /\ ppPage = "write"
    /\ ~ppMounted
    /\ ppMounted' = TRUE
    /\ UNCHANGED <<dbPosts, ppUser, ppPage, ppId, postWrites, wpVars>>

\* EditPage mounts: the effect on [id, user] calls fetchPost when both are
\* set; fetchPost sends the select.
EditPageMount ==
    /\ ppPage = "edit"
    /\ ~ppMounted
    /\ ppMounted' = TRUE
    /\ wpInflight' =
          IF ppUser # 0
          THEN wpInflight \cup
                 {[kind |-> "fetchPost", op |-> "select", id |-> ppId,
                   user |-> ppUser,
                   stage |-> "sent", data |-> NoPost, slug |-> <<>>,
                   title |-> <<>>, postSlug |-> <<>>, existing |-> FALSE]}
          ELSE wpInflight
    /\ UNCHANGED <<dbPosts, ppUser, ppPage, ppId, postWrites, wpTitle,
                   wpSlug, wpSaving, wpLoading, wpPost, wpTimer, wpEdits,
                   wpSubmits>>

\* The server answers EditPage.fetchPost's select.
EditFetchServer(r) ==
    /\ r \in wpInflight
    /\ r.kind = "fetchPost"
    /\ r.stage = "sent"
    /\ wpInflight' =
          (wpInflight \ {r})
            \cup {[r EXCEPT !.stage = "answered", !.data = PostById(r.id)]}
    /\ UNCHANGED <<ppVars, wpTitle, wpSlug, wpSaving, wpLoading, wpPost,
                   wpTimer, wpEdits, wpSubmits>>

\* EditPage.fetchPost after the await: no row is an error (toast, navigate
\* to '/'); a row of another author is refused (toast, navigate to '/',
\* return before the form is populated); otherwise the form is filled from
\* the row.  loading is cleared in every case.
EditFetchResume(r) ==
    /\ r \in wpInflight
    /\ r.kind = "fetchPost"
    /\ r.stage = "answered"
    /\ ppPage = "edit"
    /\ wpInflight' = wpInflight \ {r}
    /\ wpLoading' = FALSE
    /\ IF r.data = NoPost \/ r.data.author_id # r.user
       THEN /\ ppPage' = "away"
            /\ UNCHANGED <<wpPost, wpTitle, wpSlug>>
       ELSE /\ wpPost' = r.data
            /\ wpTitle' = r.data.title
            /\ wpSlug' = r.data.slug
            /\ UNCHANGED ppPage
    /\ UNCHANGED <<dbPosts, ppUser, ppId, ppMounted, postWrites, wpSaving,
                   wpTimer, wpEdits, wpSubmits>>

\* The visitor changes the title field; the title effect follows.
SetTitle(t) ==
    /\ FormShown
    /\ wpEdits < MaxTitleEdits
    /\ t # wpTitle
    /\ wpTitle' = t
    /\ wpSlug' = TitleEffectSlug(t)
    /\ wpEdits' = wpEdits + 1
    /\ UNCHANGED <<ppVars, wpSaving, wpLoading, wpPost, wpInflight,
                   wpTimer, wpSubmits>>

\* A title is non-blank after trim().
TitleFilled(t) == ~IsBlank(t)

\* The slug lookup is made: WritePage for any non-empty slug, EditPage for
\* one that differs from the loaded post's.
NeedsLookup ==
    /\ wpSlug # <<>>
    /\ ppPage = "edit" => wpSlug # wpPost.slug

\* The form is still mounted: state updates of a page that was left are
\* dropped.
FormLive == ppPage \in {"write", "edit"}

\* The write a submission sends: an insert from WritePage, an update of the
\* route's post from EditPage.
WriteOf(r, looked, collided) ==
    IF r.op = "insert"
    THEN PostWrite("insert", "WritePage", 0, r.slug, looked, collided)
    ELSE PostWrite("update", "EditPage", r.id, r.slug, looked, collided)

\* handleSubmit up to its first await: the button is enabled only while
\* nothing is being saved and title and content are filled (the content is
\* taken as filled); the signed-out branch navigates to the login page.
handleSubmit ==
    /\ FormShown
    /\ ~wpSaving
    /\ TitleFilled(wpTitle)
    /\ wpSubmits < MaxSubmits
    /\ wpSubmits' = wpSubmits + 1
    /\ IF ppUser = 0
       THEN /\ ppPage' = "away"
            /\ UNCHANGED <<wpSaving, wpInflight, postWrites>>
       ELSE /\ wpSaving' = TRUE
            /\ UNCHANGED ppPage
            /\ LET r == [kind |-> "submit",
                         op |-> IF ppPage = "write" THEN "insert"
                                ELSE "update",
                         id |-> ppId, user |-> ppUser,
                         stage |-> IF NeedsLookup THEN "lookup"
                                   ELSE "write",
                         data |-> NoPost, slug |-> wpSlug,
                         title |-> wpTitle,
                         postSlug |-> IF wpPost = NoPost THEN <<>>
                                      ELSE wpPost.slug,
                         existing |-> FALSE]
               IN  /\ wpInflight' = wpInflight \cup {r}
                   /\ postWrites' =
                         IF NeedsLookup THEN postWrites
                         ELSE Append(postWrites, WriteOf(r, wpSlug, FALSE))
    /\ UNCHANGED <<dbPosts, ppUser, ppId, ppMounted, wpTitle, wpSlug,
                   wpLoading, wpPost, wpTimer, wpEdits>>

\* The rows the slug lookup matches: WritePage .eq('slug', slug), EditPage
\* also .neq('id', id).
SlugMatches(r) ==
    {i \in PostIdsInDb :
        /\ dbPosts[i].slug = r.slug
        /\ r.op = "update" => i # r.id}

\* The server answers the slug lookup: single() and maybeSingle() give a
\* row only when exactly one matches.
SlugLookupServer(r) ==
    /\ r \in wpInflight
    /\ r.kind = "submit"
    /\ r.stage = "lookup"
    /\ wpInflight' =
          (wpInflight \ {r})
            \cup {[r EXCEPT !.stage = "lookedUp",
                            !.existing = Cardinality(SlugMatches(r)) = 1]}
    /\ UNCHANGED <<ppVars, wpTitle, wpSlug, wpSaving, wpLoading, wpPost,
                   wpTimer, wpEdits, wpSubmits>>

\* handleSubmit after the lookup: on a collision setSlug(`${slug}-${suffix}`);
\* then the insert / update is sent with `slug` of the render in which the
\* form was submitted, which setSlug does not change.
SubmitAfterLookup(r, suffix) ==
    /\ r \in wpInflight
    /\ r.kind = "submit"
    /\ r.stage = "lookedUp"
    /\ wpSlug' = IF r.existing /\ FormLive
                 THEN r.slug \o <<"-">> \o suffix
                 ELSE wpSlug
    /\ postWrites' = Append(postWrites, WriteOf(r, r.slug, r.existing))
    /\ wpInflight' = (wpInflight \ {r}) \cup {[r EXCEPT !.stage = "write"]}
    /\ UNCHANGED <<dbPosts, ppUser, ppPage, ppId, ppMounted, wpTitle,
                   wpSaving, wpLoading, wpPost, wpTimer, wpEdits, wpSubmits>>

\* The server performs the insert / update, or refuses it.
PostWriteServer(r, fails) ==
    /\ r \in wpInflight
    /\ r.kind = "submit"
    /\ r.stage = "write"
    /\ wpInflight' =
          (wpInflight \ {r})
            \cup {[r EXCEPT !.stage = IF fails THEN "failed" ELSE "written"]}
    /\ dbPosts' =
          IF fails THEN dbPosts
          ELSE IF r.op = "insert"
               THEN Append(dbPosts,
                           [id |-> Len(dbPosts) + 1, exists |-> TRUE,
                            author_id |-> r.user, title |-> r.title,
                            slug |-> r.slug, views |-> 0])
               ELSE IF r.id \in PostIdsInDb
                    THEN [dbPosts EXCEPT ![r.id].title = r.title,
                                         ![r.id].slug = r.slug]
                    ELSE dbPosts
    /\ UNCHANGED <<ppUser, ppPage, ppId, ppMounted, postWrites, wpTitle,
                   wpSlug, wpSaving, wpLoading, wpPost, wpTimer, wpEdits,
                   wpSubmits>>

\* handleSubmit after the write: success starts the timer that navigates to
\* the post, failure shows a toast; saving is cleared in both cases.
SubmitFinish(r) ==
    /\ r \in wpInflight
    /\ r.kind = "submit"
    /\ r.stage \in {"written", "failed"}
    /\ wpInflight' = wpInflight \ {r}
    /\ wpSaving' = IF FormLive THEN FALSE ELSE wpSaving
    /\ wpTimer' = (wpTimer \/ r.stage = "written")
    /\ UNCHANGED <<ppVars, wpTitle, wpSlug, wpLoading, wpPost, wpEdits,
                   wpSubmits>>

\* The timer fires: navigate(`/post/${id}`) leaves the form.
SubmitNavigate ==
    /\ wpTimer
    /\ wpTimer' = FALSE
    /\ ppPage' = IF FormLive THEN "away" ELSE ppPage
    /\ UNCHANGED <<dbPosts, ppUser, ppId, ppMounted, postWrites, wpTitle,
                   wpSlug, wpSaving, wpLoading, wpPost, wpInflight, wpEdits,
                   wpSubmits>>

\* The form's state before the page is mounted.
FormUnmounted ==
    /\ wpTitle = <<>>
    /\ wpSlug = <<>>
    /\ wpSaving = FALSE
    /\ wpLoading = TRUE
    /\ wpPost = NoPost
    /\ wpInflight = {}
    /\ wpTimer = FALSE
    /\ wpEdits = 0
    /\ wpSubmits = 0

\* ------------------------------------------------------------------------
\* DetailPage and MyPage
\* ------------------------------------------------------------------------

\* Bound: changes of the signed-in user or of the route's post id while
\* DetailPage stays mounted.
MaxPageEvents == 1

\* Bound: delete confirmations on DetailPage and MyPage.
MaxDeletes == 2

VARIABLES
    dpPost,             \* DetailPage: post
    dpLoading,          \* loading
    dpShowDeleteModal,  \* showDeleteModal
    mpPosts,            \* MyPage: posts (ids, as loaded)
    ppInflight,         \* requests of DetailPage and MyPage awaiting an answer
    ppEvents,           \* user / route changes so far
    ppDeletes           \* delete confirmations so far

dpVars ==
    <<dpPost, dpLoading, dpShowDeleteModal, mpPosts, ppInflight, ppEvents,
      ppDeletes>>

\* The instance of page p that sent request r is still mounted: the state
\* setters a request's continuation calls belong to the instance that sent
\* it, and React drops their calls once that instance is unmounted.
PageLive(r, p) == ppPage = p /\ r.inst = navInstance

\* A request of DetailPage or MyPage.  seq tells apart equal requests sent
\* at different times.
PageRequest(kind, id, stage) ==
    [kind |-> kind, id |-> id, user |-> ppUser, stage |-> stage,
     data |-> NoPost, rows |-> <<>>, ok |-> TRUE,
     seq |-> Len(postWrites) + ppEvents + ppDeletes, inst |-> navInstance]

\* DetailPage.fetchPost up to its first await: the select of the post.
IssueFetchPost == PageRequest("fetchPost", ppId, "select")

\* DetailPage mounts: the effect on [id, user] calls fetchPost (and
\* checkIfLiked, see the like toggle).
DetailPageMount ==
    /\ ppPage = "detail"
    /\ ~ppMounted
    /\ ppMounted' = TRUE
    /\ ppInflight' = ppInflight \cup {IssueFetchPost}
    /\ UNCHANGED <<dbPosts, ppUser, ppPage, ppId, postWrites, wpVars,
                   dpPost, dpLoading, dpShowDeleteModal, mpPosts, ppEvents,
                   ppDeletes>>

\* The session changes while DetailPage is mounted (sign-in resolved, sign
\* out): the effect on [id, user] runs fetchPost again.
DetailUserChange(u) ==
    /\ ppPage = "detail"
    /\ ppMounted
    /\ ppEvents < MaxPageEvents
    /\ u # ppUser
    /\ ppUser' = u
    /\ ppEvents' = ppEvents + 1
    /\ ppInflight' =
          ppInflight \cup {[IssueFetchPost EXCEPT !.user = u,
                                                   !.seq = @ + 1]}
    /\ UNCHANGED <<dbPosts, ppPage, ppId, ppMounted, postWrites, wpVars,
                   dpPost, dpLoading, dpShowDeleteModal, mpPosts,
                   ppDeletes>>

\* The route's post id changes while DetailPage is mounted (a jump in the
\* session history): the effect on [id, user] runs fetchPost again.
DetailRouteChange(id) ==
    /\ ppPage = "detail"
    /\ ppMounted
    /\ ppEvents < MaxPageEvents
    /\ id # ppId
    /\ ppId' = id
    /\ ppEvents' = ppEvents + 1
    /\ ppInflight' =
          ppInflight \cup {[IssueFetchPost EXCEPT !.id = id, !.seq = @ + 1]}
    /\ UNCHANGED <<dbPosts, ppUser, ppPage, ppMounted, postWrites, wpVars,
                   dpPost, dpLoading, dpShowDeleteModal, mpPosts,
                   ppDeletes>>

\* The server answers the select of the post.
FetchPostSelect(r) ==
    /\ r \in ppInflight
    /\ r.kind = "fetchPost"
    /\ r.stage = "select"
    /\ ppInflight' =
          (ppInflight \ {r})
            \cup {[r EXCEPT !.stage = "selected", !.data = PostById(r.id)]}
    /\ UNCHANGED <<ppVars, wpVars, dpPost, dpLoading, dpShowDeleteModal,
                   mpPosts, ppEvents, ppDeletes>>

\* fetchPost after the select: no row is an error (toast; loading cleared);
\* otherwise the author's profile is asked for.
FetchPostProfile(r) ==
    /\ r \in ppInflight
    /\ r.kind = "fetchPost"
    /\ r.stage = "selected"
    /\ IF r.data = NoPost
       THEN /\ ppInflight' = ppInflight \ {r}
            /\ dpLoading' = IF PageLive(r, "detail") THEN FALSE ELSE dpLoading
       ELSE /\ ppInflight' =
                  (ppInflight \ {r}) \cup {[r EXCEPT !.stage = "profile"]}
            /\ UNCHANGED dpLoading
    /\ UNCHANGED <<ppVars, wpVars, dpPost, dpShowDeleteModal, mpPosts,
                   ppEvents, ppDeletes>>

\* fetchPost after the profile arrived: the view count read by the select,
\* plus one, is written back, whoever the visitor is.
FetchPostViews(r) ==
    /\ r \in ppInflight
    /\ r.kind = "fetchPost"
    /\ r.stage = "profile"
    /\ postWrites' =
          Append(postWrites,
                 PostWrite("views", "DetailPage", r.id, <<>>, <<>>, FALSE))
    /\ ppInflight' = (ppInflight \ {r}) \cup {[r EXCEPT !.stage = "views"]}
    /\ UNCHANGED <<dbPosts, ppUser, ppPage, ppId, ppMounted, wpVars, dpPost,
                   dpLoading, dpShowDeleteModal, mpPosts, ppEvents,
                   ppDeletes>>

\* The server performs the view-count update, or refuses it; fetchPost does
\* not look at the outcome.
ViewsUpdateServer(r, fails) ==
    /\ r \in ppInflight
    /\ r.kind = "fetchPost"
    /\ r.stage = "views"
    /\ ppInflight' =
          (ppInflight \ {r}) \cup {[r EXCEPT !.stage = "updated"]}
    /\ dbPosts' =
          IF ~fails /\ r.id \in PostIdsInDb
          THEN [dbPosts EXCEPT ![r.id].views = r.data.views + 1]
          ELSE dbPosts
    /\ UNCHANGED <<ppUser, ppPage, ppId, ppMounted, postWrites, wpVars,
                   dpPost, dpLoading, dpShowDeleteModal, mpPosts, ppEvents,
                   ppDeletes>>

\* fetchPost after the update: setPost (the row as selected), loading
\* cleared.
FetchPostApply(r) ==
    /\ r \in ppInflight
    /\ r.kind = "fetchPost"
    /\ r.stage = "updated"
    /\ ppInflight' = ppInflight \ {r}
    /\ dpPost' = IF PageLive(r, "detail") THEN r.data ELSE dpPost
    /\ dpLoading' = IF PageLive(r, "detail") THEN FALSE ELSE dpLoading
    /\ UNCHANGED <<ppVars, wpVars, dpShowDeleteModal, mpPosts, ppEvents,
                   ppDeletes>>

\* DetailPage shows the post (neither the loading nor the not-found view).
DetailRendered ==
    /\ ppPage = "detail"
    /\ ppMounted
    /\ ~dpLoading
    /\ dpPost # NoPost

\* const isAuthor = user?.id === post.author_id
DetailIsAuthor == ppUser # 0 /\ dpPost # NoPost /\ ppUser = dpPost.author_id

\* The delete button, offered to the author.
DetailOpenDeleteModal ==
    /\ DetailRendered
    /\ DetailIsAuthor
    /\ ~dpShowDeleteModal
    /\ dpShowDeleteModal' = TRUE
    /\ UNCHANGED <<ppVars, wpVars, dpPost, dpLoading, mpPosts, ppInflight,
                   ppEvents, ppDeletes>>

\* The modal's cancel button.
DetailCancelDelete ==
    /\ DetailRendered
    /\ dpShowDeleteModal
    /\ dpShowDeleteModal' = FALSE
    /\ UNCHANGED <<ppVars, wpVars, dpPost, dpLoading, mpPosts, ppInflight,
                   ppEvents, ppDeletes>>

\* The modal's delete button: the modal closes and handleDelete sends the
\* delete of the route's post.
DetailConfirmDelete ==
    /\ DetailRendered
    /\ dpShowDeleteModal
    /\ ppDeletes < MaxDeletes
    /\ dpShowDeleteModal' = FALSE
    /\ ppDeletes' = ppDeletes + 1
    /\ postWrites' =
          Append(postWrites,
                 PostWrite("delete", "DetailPage", ppId, <<>>, <<>>, FALSE))
    /\ ppInflight' = ppInflight \cup {PageRequest("delete", ppId, "sent")}
    /\ UNCHANGED <<dbPosts, ppUser, ppPage, ppId, ppMounted, wpVars, dpPost,
                   dpLoading, mpPosts, ppEvents>>

\* The server performs a delete, or refuses it.
PostDeleteServer(r, fails) ==
    /\ r \in ppInflight
    /\ r.kind \in {"delete", "myDelete"}
    /\ r.stage = "sent"
    /\ ppInflight' =
          (ppInflight \ {r})
            \cup {[r EXCEPT !.stage = "done", !.ok = ~fails]}
    /\ dbPosts' =
          IF ~fails /\ r.id \in PostIdsInDb
          THEN [dbPosts EXCEPT ![r.id].exists = FALSE]
          ELSE dbPosts
    /\ UNCHANGED <<ppUser, ppPage, ppId, ppMounted, postWrites, wpVars,
                   dpPost, dpLoading, dpShowDeleteModal, mpPosts, ppEvents,
                   ppDeletes>>

\* DetailPage.handleDelete after the await: success navigates to '/',
\* failure shows a toast.
DetailDeleteResume(r) ==
    /\ r \in ppInflight
    /\ r.kind = "delete"
    /\ r.stage = "done"
    /\ ppInflight' = ppInflight \ {r}
    /\ ppPage' = IF r.ok /\ PageLive(r, "detail") THEN "away" ELSE ppPage
    /\ UNCHANGED <<dbPosts, ppUser, ppId, ppMounted, postWrites, wpVars,
                   dpPost, dpLoading, dpShowDeleteModal, mpPosts, ppEvents,
                   ppDeletes>>

\* MyPage mounts: the effect on [user] calls fetchMyPosts (and fetchStats
\* and fetchLikedPosts, which only read).
MyPageMount ==
    /\ ppPage = "mypage"
    /\ ~ppMounted
    /\ ppMounted' = TRUE
    /\ ppInflight' =
          IF ppUser # 0
          THEN ppInflight \cup {PageRequest("myPosts", 0, "sent")}
          ELSE ppInflight
    /\ UNCHANGED <<dbPosts, ppUser, ppPage, ppId, postWrites, wpVars,
                   dpPost, dpLoading, dpShowDeleteModal, mpPosts, ppEvents,
                   ppDeletes>>

\* The server answers fetchMyPosts: the posts with author_id = user.id.
MyPostsServer(r) ==
    /\ r \in ppInflight
    /\ r.kind = "myPosts"
    /\ r.stage = "sent"
    /\ ppInflight' =
          (ppInflight \ {r})
            \cup {[r EXCEPT
                     !.stage = "done",
                     !.rows = {i \in PostIdsInDb :
                                  dbPosts[i].author_id = r.user}]}
    /\ UNCHANGED <<ppVars, wpVars, dpPost, dpLoading, dpShowDeleteModal,
                   mpPosts, ppEvents, ppDeletes>>

\* fetchMyPosts after the await: setPosts.
MyPostsApply(r) ==
    /\ r \in ppInflight
    /\ r.kind = "myPosts"
    /\ r.stage = "done"
    /\ ppInflight' = ppInflight \ {r}
    /\ mpPosts' = IF PageLive(r, "mypage") THEN r.rows ELSE mpPosts
    /\ UNCHANGED <<ppVars, wpVars, dpPost, dpLoading, dpShowDeleteModal,
                   ppEvents, ppDeletes>>

\* MyPage.handleDeletePost on a listed post, confirmed: the delete is sent.
handleDeletePost(postId) ==
    /\ ppPage = "mypage"
    /\ ppMounted
    /\ postId \in mpPosts
    /\ ppDeletes < MaxDeletes
    /\ ppDeletes' = ppDeletes + 1
    /\ postWrites' =
          Append(postWrites,
                 PostWrite("delete", "MyPage", postId, <<>>, <<>>, FALSE))
    /\ ppInflight' =
          ppInflight \cup {PageRequest("myDelete", postId, "sent")}
    /\ UNCHANGED <<dbPosts, ppUser, ppPage, ppId, ppMounted, wpVars, dpPost,
                   dpLoading, dpShowDeleteModal, mpPosts, ppEvents>>

\* handleDeletePost after the await: success reloads the list.
MyDeleteResume(r) ==
    /\ r \in ppInflight
    /\ r.kind = "myDelete"
    /\ r.stage = "done"
    /\ ppInflight' =
          (ppInflight \ {r})
            \cup (IF r.ok
                  THEN {[PageRequest("myPosts", 0, "sent")
                           EXCEPT !.user = r.user]}
                  ELSE {})
    /\ UNCHANGED <<ppVars, wpVars, dpPost, dpLoading, dpShowDeleteModal,
                   mpPosts, ppEvents, ppDeletes>>

\* --- MyPage: the links of a post card -----------------------------------
\* mpClicked : history: the card or edit button clicked on MyPage, with the
\*             route parameter it navigated with
VARIABLES mpClicked

clickVars == <<mpClicked>>

NoClick == [kind |-> "none", id |-> 0, param |-> [id |-> 0, slug |-> <<>>]]

\* `${post.slug || post.id}`: the slug if the post has one, else the id.
RouteParam(post) ==
    IF post.slug # <<>> THEN [id |-> 0, slug |-> post.slug]
    ELSE [id |-> post.id, slug |-> <<>>]

\* The id that .eq('id', id) compares the rows with when the route carries
\* param: the id itself, or, for a slug, a value no post has as its id.
ParamAsId(param) ==
    IF param.slug = <<>> THEN param.id
    ELSE CHOOSE i \in 1..(Len(InitialPosts) + 1) : i \notin DOMAIN InitialPosts

\* navigate(to) from MyPage: MyPage is unmounted, with its list.
MyPageNavigate(kind, to, postId) ==
    /\ ppPage = "mypage"
    /\ ppMounted
    /\ postId \in mpPosts
    /\ mpClicked = NoClick
    /\ LET param == RouteParam(dbPosts[postId])
       IN  /\ mpClicked' = [kind |-> kind, id |-> postId, param |-> param]
           /\ ppId' = ParamAsId(param)
    /\ ppPage' = to
    /\ ppMounted' = FALSE
    /\ mpPosts' = {}
    /\ UNCHANGED <<dbPosts, ppUser, postWrites, wpVars, dpPost, dpLoading,
                   dpShowDeleteModal, ppInflight, ppEvents, ppDeletes>>

\* The card of a listed post:
\* onClick={() => navigate(`/post/${post.slug || post.id}`)}
MyCardClick(postId) == MyPageNavigate("card", "detail", postId)

\* The edit button of a listed post:
\* navigate(`/edit/${post.slug || post.id}`)
MyEditClick(postId) == MyPageNavigate("edit", "edit", postId)

\* DetailPage and MyPage before they are mounted.
PagesUnmounted ==
    /\ mpClicked = NoClick
    /\ dpPost = NoPost
    /\ dpLoading = TRUE
    /\ dpShowDeleteModal = FALSE
    /\ mpPosts = {}
    /\ ppInflight = {}
    /\ ppEvents = 0
    /\ ppDeletes = 0

\* Ids the route may carry: the two posts and one that does not exist.
RouteIds == {1, 2, 3}

\* The routes behind ProtectedRoute.
ProtectedPages == {"write", "edit", "mypage"}

\* The posts stored at the start: both posts with a slug, or post 1 saved
\* without one (`slug: slug || null`).
StoredPosts == {InitialPosts, [InitialPosts EXCEPT ![1].slug = <<>>]}

\* A page is about to be shown to a visitor; the protected pages are shown
\* to signed-in visitors only.
PostsInit ==
    /\ dbPosts \in StoredPosts
    /\ ppPage \in {"write", "edit", "detail", "mypage"}
    /\ ppUser \in {0} \cup Users
    /\ ppPage \in ProtectedPages => ppUser # 0
    /\ ppId \in {0} \cup RouteIds
    /\ ppId = 0 <=> ppPage \in {"write", "mypage"}
    /\ ppMounted = FALSE
    /\ postWrites = <<>>
    /\ FormUnmounted
    /\ PagesUnmounted

PostsIdle ==
    PostsInit /\ dbPosts = InitialPosts /\ ppPage = "write" /\ ppUser = 1

\* ========================================================================
\* STORAGE (safeStorage, SafeStorageWrapper)
\* ========================================================================
\* One of the two abstractions sits over the browser's localStorage, which
\* is available, blocked (every access throws) or failing on some calls.

\* Bound: calls made on the abstraction.
MaxStorageCalls == 3

\* Keys: an ordinary one and a property name of Object.prototype.
StorageKeys == {"recentSearches", "toString"}

ObjectPrototypeKeys == {"toString"}

\* Values stored, the empty string among them.
StorageValues == {"", "[]", "[\"a\"]"}

\* null, and a string, as a result of getItem or a slot of a map.
Null == [some |-> FALSE, v |-> ""]

Some(v) == [some |-> TRUE, v |-> v]

\* What memoryStorage[key] gives for a key that was never assigned but is
\* inherited from Object.prototype: a function.
Inherited == [some |-> TRUE, v |-> "function"]

EmptyStore == [k \in StorageKeys |-> Null]

VARIABLES
    stImpl,      \* "safeStorage" or "SafeStorageWrapper"
    stMode,      \* "available", "blocked" or "flaky"
    stReal,      \* the browser's localStorage
    stAttached,  \* SafeStorageWrapper.realStorage is not null
    stMemory,    \* memoryStorage / SafeStorageWrapper.fallback
    stMap,       \* a plain key-value map given the same calls
    stLast,      \* the last call and what it returned
    stCalls      \* calls so far

stVars ==
    <<stImpl, stMode, stReal, stAttached, stMemory, stMap, stLast, stCalls>>

\* Whether an access of the browser's storage may throw, and may succeed.
MayThrow == stMode \in {"blocked", "flaky"}

MaySucceed == stMode \in {"available", "flaky"}

Outcomes == {t \in BOOLEAN : IF t THEN MayThrow ELSE MaySucceed}

\* memoryStorage[key] || null
MemoryOrNull(key) ==
    LET m == IF stMemory[key] = Null /\ key \in ObjectPrototypeKeys
             THEN Inherited
             ELSE stMemory[key]
    IN  IF m = Null \/ m = Some("") THEN Null ELSE m

\* safeStorage.getItem
safeStorageGet(key, throws) ==
    IF throws THEN MemoryOrNull(key) ELSE stReal[key]

\* SafeStorageWrapper.getItem: this.fallback.getItem is data.get(key) ?? null
wrapperGet(key, throws) ==
    IF stAttached /\ ~throws THEN stReal[key] ELSE stMemory[key]

\* The real storage is written by this call.
WritesReal(throws) ==
    IF stImpl = "safeStorage" THEN ~throws ELSE stAttached /\ ~throws

\* The in-memory store is written by this call.
WritesMemory(throws) ==
    IF stImpl = "safeStorage" THEN throws ELSE TRUE

Called(op, key, value, result, expected) ==
    [op |-> op, key |-> key, value |-> value, result |-> result,
     expected |-> expected]

getItem(key, throws) ==
    /\ stCalls < MaxStorageCalls
    /\ throws \in Outcomes
    /\ stCalls' = stCalls + 1
    /\ stLast' = Called("getItem", key, "",
                        IF stImpl = "safeStorage"
                        THEN safeStorageGet(key, throws)
                        ELSE wrapperGet(key, throws),
                        stMap[key])
    /\ UNCHANGED <<stImpl, stMode, stReal, stAttached, stMemory, stMap>>

\* The stores after a call that puts slot at key.
Put(store, key, slot, written) ==
    IF written THEN [store EXCEPT ![key] = slot] ELSE store

setItem(key, value, throws) ==
    /\ stCalls < MaxStorageCalls
    /\ throws \in Outcomes
    /\ stCalls' = stCalls + 1
    /\ stReal' = Put(stReal, key, Some(value), WritesReal(throws))
    /\ stMemory' = Put(stMemory, key, Some(value), WritesMemory(throws))
    /\ stMap' = [stMap EXCEPT ![key] = Some(value)]
    /\ stLast' = Called("setItem", key, value, Null, Null)
    /\ UNCHANGED <<stImpl, stMode, stAttached>>

removeItem(key, throws) ==
    /\ stCalls < MaxStorageCalls
    /\ throws \in Outcomes
    /\ stCalls' = stCalls + 1
    /\ stReal' = Put(stReal, key, Null, WritesReal(throws))
    /\ stMemory' = Put(stMemory, key, Null, WritesMemory(throws))
    /\ stMap' = [stMap EXCEPT ![key] = Null]
    /\ stLast' = Called("removeItem", key, "", Null, Null)
    /\ UNCHANGED <<stImpl, stMode, stAttached>>

clear(throws) ==
    /\ stCalls < MaxStorageCalls
    /\ throws \in Outcomes
    /\ stCalls' = stCalls + 1
    /\ stReal' = IF WritesReal(throws) THEN EmptyStore ELSE stReal
    /\ stMemory' = IF WritesMemory(throws) THEN EmptyStore ELSE stMemory
    /\ stMap' = EmptyStore
    /\ stLast' = Called("clear", "", "", Null, Null)
    /\ UNCHANGED <<stImpl, stMode, stAttached>>

\* After the module is loaded: the stores are empty; the constructor of
\* SafeStorageWrapper has kept the real storage if its test write went
\* through.
StorageInit ==
    /\ stImpl \in {"safeStorage", "SafeStorageWrapper"}
    /\ stMode \in {"available", "blocked", "flaky"}
    /\ stAttached \in BOOLEAN
    /\ stImpl = "safeStorage" => stAttached
    /\ stMode = "available" => stAttached
    /\ stMode = "blocked" => (stAttached <=> stImpl = "safeStorage")
    /\ stReal = EmptyStore
    /\ stMemory = EmptyStore
    /\ stMap = EmptyStore
    /\ stLast = Called("none", "", "", Null, Null)
    /\ stCalls = 0

StorageIdle ==
    /\ StorageInit
    /\ stImpl = "safeStorage"
    /\ stMode = "available"

\* ------------------------------------------------------------------------
\* Navigation between MainPage ('/') and DetailPage ('/post/1')
\* ------------------------------------------------------------------------

\* A request of an unmounted instance of a view.
Orphan(view, f) == [view |-> view, inst |-> navInstance, req |-> f]

NoArrival ==
    [kind |-> "none", view |-> "none", inst |-> 0, live |-> FALSE,
     loading |-> FALSE]

\* The post shown by DetailPage in the navigation model.
NavPostId == 1

\* A link to the post is followed: MainPage unmounts (the next instance
\* will start from the initial state), its requests stay outstanding, and
\* the route becomes /post/1.
NavigateToPost ==
    /\ ppPage = "main"
    /\ mounted
    /\ navInstance < MaxNavigations
    /\ navInstance' = navInstance + 1
    /\ navOrphans' =
          navOrphans \cup {Orphan("MainPage", f) : f \in feedInflight}
    /\ navEvent' = NoArrival
    /\ mounted' = FALSE
    /\ posts' = <<>>
    /\ loading' = TRUE
    /\ loadingMore' = FALSE
    /\ hasMore' = TRUE
    /\ sortBy' = "latest"
    /\ page' = 0
    /\ observing' = FALSE
    /\ feedInflight' = {}
    /\ feedEvent' = FeedEv("unmount", NoFetch)
    /\ ppPage' = "detail"
    /\ ppId' = NavPostId
    /\ UNCHANGED <<numPublic, feedIssued, csVars, dbPosts, ppUser, ppMounted,
                   postWrites, dpVars>>

\* A link to the main page is followed: DetailPage and its CommentSection
\* unmount, their requests stay outstanding, and the route becomes '/'.
\* (A fetchComments call outstanding twice with equal arguments is kept
\* once.)
NavigateToMain ==
    /\ ppPage = "detail"
    /\ ppMounted
    /\ navInstance < MaxNavigations
    /\ navInstance' = navInstance + 1
    /\ navOrphans' =
          navOrphans
            \cup {Orphan("CommentSection", f) : f \in BagToSet(csInflight)}
    /\ navEvent' = NoArrival
    /\ ppPage' = "main"
    /\ ppId' = 0
    /\ ppMounted' = FALSE
    /\ dpPost' = NoPost
    /\ dpLoading' = TRUE
    /\ dpShowDeleteModal' = FALSE
    /\ csMounted' = FALSE
    /\ comments' = <<>>
    /\ csLoading' = TRUE
    /\ csHasMore' = FALSE
    /\ csPage' = 1
    /\ totalCount' = 0
    /\ csInflight' = EmptyBag
    /\ csEvent' = CsEv("unmount", NoCommentFetch)
    /\ UNCHANGED <<feedVars, dbComments, csPostId, csIssued, dbPosts, ppUser,
                   postWrites, mpPosts, ppInflight, ppEvents, ppDeletes>>

\* The view state an arrival finds.
ArrivalAt(o) ==
    [kind |-> "arrival", view |-> o.view, inst |-> o.inst,
     live |-> IF o.view = "MainPage" THEN mounted ELSE csMounted,
     loading |-> IF o.view = "MainPage" THEN loading ELSE csLoading]

\* The response to a request of an unmounted instance, were its
\* continuation's set-state calls to reach the instance now mounted.
OrphanArrivesApplied(o) ==
    /\ o \in navOrphans
    /\ navOrphans' = navOrphans \ {o}
    /\ navEvent' = ArrivalAt(o)
    /\ UNCHANGED navInstance
    /\ IF o.view = "MainPage"
       THEN /\ LET rows == QueryPosts(numPublic, o.req.pageNum, o.req.sort)
               IN  FeedCommit(IF o.req.reset THEN rows ELSE posts \o rows,
                              FALSE, FALSE, Len(rows) = POSTS_PER_PAGE,
                              sortBy, page)
            /\ UNCHANGED <<numPublic, mounted, feedInflight, feedIssued,
                           feedEvent, csVars>>
       ELSE /\ comments' = QueryComments(dbComments, o.req.postId,
                                         o.req.pageNum)
            /\ csLoading' = FALSE
            /\ UNCHANGED <<feedVars, dbComments, csMounted, csPostId,
                           csHasMore, csPage, totalCount, csInflight,
                           csIssued, csEvent>>

\* The response to a request of an unmounted MainPage or CommentSection
\* instance arrives: the remaining queries of the call only read, and the
\* set-state calls of its continuation are dropped because the instance
\* they belong to is gone.
OrphanArrives(o) ==
    /\ o \in navOrphans
    /\ navOrphans' = navOrphans \ {o}
    /\ navEvent' = ArrivalAt(o)
    /\ UNCHANGED <<navInstance, feedVars, csVars>>

NavIdle ==
    /\ navInstance = 0
    /\ navOrphans = {}
    /\ navEvent = NoArrival

\* The application is opened on the main page.
NavInit ==
    /\ FeedInit
    /\ CommentsInit
    /\ csPostId = NavPostId
    /\ dbPosts = InitialPosts
    /\ ppUser \in {0} \cup Users
    /\ ppPage = "main"
    /\ ppId = 0
    /\ ppMounted = FALSE
    /\ postWrites = <<>>
    /\ FormUnmounted
    /\ PagesUnmounted
    /\ NavIdle

\* ========================================================================
\* TIME AGO  (src/utils/timeAgo.ts)
\* ========================================================================

\* The divisors and limits of timeAgo.
SecondsPerMinute == 60
MinutesPerHour == 60
HoursPerDay == 24
DaysPerWeek == 7
WeeksLimit == 5
DaysPerMonth == 30
MonthsLimit == 12
DaysPerYear == 365

SecondsPerDay == SecondsPerMinute * MinutesPerHour * HoursPerDay

\* The elapsed times tried: every second up to MaxElapsedSeconds, every
\* minute up to MaxElapsedMinutes, every hour up to MaxElapsedHours and
\* every day up to MaxElapsedDays.
MaxElapsedSeconds == 120
MaxElapsedMinutes == 120
MaxElapsedHours == 48
MaxElapsedDays == 400

\* How many times the label of one date is computed.
MaxTimeCalls == 2

\* taElapsed : now.getTime() - past.getTime(), in whole seconds
\* taLabels  : the labels computed so far, with the elapsed time of each
VARIABLES taElapsed, taLabels

taVars == <<taElapsed, taLabels>>

\* A label `${n}<unit> ago`; "now" is the fixed label for under a minute.
TimeLabel(n, unit) == [n |-> n, unit |-> unit]

\* timeAgo, from diffInSeconds on.
timeAgo(diffInSeconds) ==
    LET diffInMinutes == diffInSeconds \div SecondsPerMinute
        diffInHours == diffInMinutes \div MinutesPerHour
        diffInDays == diffInHours \div HoursPerDay
        diffInWeeks == diffInDays \div DaysPerWeek
        diffInMonths == diffInDays \div DaysPerMonth
        diffInYears == diffInDays \div DaysPerYear
    IN  IF diffInSeconds < SecondsPerMinute THEN TimeLabel(0, "now")
        ELSE IF diffInMinutes < MinutesPerHour
            THEN TimeLabel(diffInMinutes, "minute")
        ELSE IF diffInHours < HoursPerDay
            THEN TimeLabel(diffInHours, "hour")
        ELSE IF diffInDays < DaysPerWeek
            THEN TimeLabel(diffInDays, "day")
        ELSE IF diffInWeeks < WeeksLimit
            THEN TimeLabel(diffInWeeks, "week")
        ELSE IF diffInMonths < MonthsLimit
            THEN TimeLabel(diffInMonths, "month")
        ELSE TimeLabel(diffInYears, "year")

\* A render computes the label of the date at the current time.
TimeAgoCall ==
    /\ Len(taLabels) < MaxTimeCalls
    /\ taLabels' =
          Append(taLabels, [elapsed |-> taElapsed,
                            label |-> timeAgo(taElapsed)])
    /\ UNCHANGED taElapsed

\* Time passes between two renders of the same date.
TimeSteps ==
    {1, SecondsPerMinute, SecondsPerMinute * MinutesPerHour, SecondsPerDay}

ClockAdvance(step) ==
    /\ Len(taLabels) = 1
    /\ taElapsed = taLabels[1].elapsed
    /\ taElapsed' = taElapsed + step
    /\ UNCHANGED taLabels

ElapsedTimes ==
    (0..MaxElapsedSeconds)
      \cup {m * SecondsPerMinute : m \in 0..MaxElapsedMinutes}
      \cup {h * SecondsPerMinute * MinutesPerHour : h \in 0..MaxElapsedHours}
      \cup {d * SecondsPerDay : d \in 0..MaxElapsedDays}

TimeInit ==
    /\ taElapsed \in ElapsedTimes
    /\ taLabels = <<>>

TimeIdle == TimeInit /\ taElapsed = 0

\* ========================================================================
\* AUTH PROVIDER  (AuthProvider, in src/utils/slugify.ts from line 35)
\* ========================================================================

\* Bound of the auth model: calls of signIn, signOut and refreshProfile
\* by the pages in one behaviour.
MaxAuthCalls == 2

VARIABLES
    authStored,     \* the collaborator's persisted session: its user, 0 none
    authRemember,   \* local storage 'myblog-remember-me': absent/true/false
    authActive,     \* session storage has 'myblog-session-active'
    auUser,         \* useState<User | null>(null): the user's id, 0 for null
    auSession,      \* useState<Session | null>(null): its user, 0 for null
    auProfile,      \* useState<Profile | null>(null): whose profile, 0 null
    auLoading,      \* useState(true)
    auMounted,      \* the effect has run: isMounted, listener subscribed
    auInflight,     \* calls suspended at an await (a bag)
    auEvents,       \* auth state changes not yet given to the listener
    auCalls,        \* calls the pages have made so far
    auBoot          \* history: what this start of the app found and did

authVars ==
    <<authStored, authRemember, authActive, auUser, auSession, auProfile,
      auLoading, auMounted, auInflight, auEvents, auCalls, auBoot>>

\* One call awaiting its answer.
AuthCall(kind, u, remember) ==
    [kind |-> kind, user |-> u, remember |-> remember]

\* (variant that never signs out at the start)
SignsOutAtStartNever(session, rememberMe, sessionActive) == FALSE

\* session && rememberMe === 'false' && !sessionActive
SignsOutAtStart(session, rememberMe, sessionActive) ==
    session # 0 /\ rememberMe = "false" /\ ~sessionActive

\* The effect of AuthProvider: initAuth() up to its first await, and the
\* listener is subscribed.
AuthMount ==
    /\ ~auMounted
    /\ auMounted' = TRUE
    /\ auInflight' = Suspend(auInflight, AuthCall("getSession", 0, FALSE))
    /\ auBoot' = [stored |-> authStored, remember |-> authRemember,
                  active |-> authActive, got |-> "pending",
                  signedOut |-> FALSE, touched |-> FALSE]
    /\ UNCHANGED <<authStored, authRemember, authActive, auUser, auSession,
                   auProfile, auLoading, auEvents, auCalls>>

\* The outcomes of an auth call: a result, an error result, an error result
\* named AbortError, a thrown error, a thrown AbortError.
AuthOutcomes == {"ok", "error", "abortError", "throws", "throwsAbort"}

\* initAuth after getSession().
\*   error result: AbortError -> return; else setLoading(false), return
\*   thrown:       AbortError -> return; else setLoading(false)
\*   session: sign out (new browser session without 'remember me'), or
\*            setSession, setUser and, with a user, fetchProfile
GetSessionAnswer(r, outcome) ==
    /\ BagIn(r, auInflight)
    /\ r.kind = "getSession"
    /\ LET signsOut == SignsOutAtStart(authStored, authRemember, authActive)
           next ==
             IF outcome # "ok" \/ ~auMounted THEN {}
             ELSE IF signsOut THEN {AuthCall("initSignOut", authStored, FALSE)}
             ELSE IF authStored # 0
                  THEN {AuthCall("initProfile", authStored, FALSE)}
             ELSE {}
       IN  /\ auInflight' = Resume(auInflight, r) (+) SetToBag(next)
           /\ auBoot' = [auBoot EXCEPT
                           !.got = IF outcome # "ok" THEN outcome
                                   ELSE IF authStored # 0 THEN "session"
                                   ELSE "none",
                           !.signedOut = (outcome = "ok" /\ signsOut)]
           /\ IF outcome = "ok" /\ auMounted /\ ~signsOut
              THEN /\ auSession' = authStored
                   /\ auUser' = authStored
              ELSE UNCHANGED <<auSession, auUser>>
           /\ auLoading' =
                IF ~auMounted THEN auLoading
                ELSE IF outcome \in {"error", "throws"} THEN FALSE
                ELSE IF outcome = "ok" /\ next = {} THEN FALSE
                ELSE auLoading
    /\ UNCHANGED <<authStored, authRemember, authActive, auProfile,
                   auMounted, auEvents, auCalls>>

\* The listeners are told of a change of the session.
Notify(s) == IF auMounted THEN Append(auEvents, s) ELSE auEvents

\* initAuth after supabase.auth.signOut(), whose result is not read:
\* setSession(null), setUser(null), setProfile(null), setLoading(false);
\* a thrown error goes to the catch.
InitSignOutAnswer(r, outcome) ==
    /\ BagIn(r, auInflight)
    /\ r.kind = "initSignOut"
    /\ auInflight' = Resume(auInflight, r)
    /\ IF outcome = "ok"
       THEN /\ authStored' = 0
            /\ auEvents' = Notify(0)
       ELSE UNCHANGED <<authStored, auEvents>>
    /\ IF auMounted /\ outcome \in {"ok", "error", "abortError"}
       THEN /\ auSession' = 0
            /\ auUser' = 0
            /\ auProfile' = 0
       ELSE UNCHANGED <<auSession, auUser, auProfile>>
    /\ auLoading' =
          IF auMounted /\ outcome # "throwsAbort" THEN FALSE ELSE auLoading
    /\ UNCHANGED <<authRemember, authActive, auMounted, auCalls, auBoot>>

\* fetchProfile returns the row, or null on an error result, an AbortError
\* or a thrown error; its caller stores what it returns:
\*   initAuth:       if (isMounted) setProfile; if (isMounted) setLoading
\*   the listener:   if (isMounted) setProfile
\*   refreshProfile: setProfile
ProfileAnswer(r, found) ==
    /\ BagIn(r, auInflight)
    /\ r.kind \in {"initProfile", "listenerProfile", "refreshProfile"}
    /\ auInflight' = Resume(auInflight, r)
    /\ auProfile' = IF auMounted THEN (IF found THEN r.user ELSE 0)
                    ELSE auProfile
    /\ auLoading' = IF auMounted /\ r.kind = "initProfile" THEN FALSE
                    ELSE auLoading
    /\ UNCHANGED <<authStored, authRemember, authActive, auUser, auSession,
                   auMounted, auEvents, auCalls, auBoot>>

\* The onAuthStateChange listener is called with a session: setSession,
\* setUser, then fetchProfile for a user, setProfile(null) for none.
AuthListener ==
    /\ auMounted
    /\ auEvents # <<>>
    /\ LET s == Head(auEvents)
       IN  /\ auSession' = s
           /\ auUser' = s
           /\ IF s # 0
              THEN /\ auInflight' =
                        Suspend(auInflight,
                                AuthCall("listenerProfile", s, FALSE))
                   /\ UNCHANGED auProfile
              ELSE /\ auProfile' = 0
                   /\ UNCHANGED auInflight
    /\ auEvents' = Tail(auEvents)
    /\ UNCHANGED <<authStored, authRemember, authActive, auLoading,
                   auMounted, auCalls, auBoot>>

\* A page calls signIn(email, password, rememberMe).
signIn(u, rememberMe) ==
    /\ auMounted
    /\ auCalls < MaxAuthCalls
    /\ auInflight' = Suspend(auInflight, AuthCall("signIn", u, rememberMe))
    /\ auCalls' = auCalls + 1
    /\ auBoot' = [auBoot EXCEPT !.touched = TRUE]
    /\ UNCHANGED <<authStored, authRemember, authActive, auUser, auSession,
                   auProfile, auLoading, auMounted, auEvents>>

\* signInWithPassword answers: on an error signIn throws; else the session
\* is persisted, the listeners are told, and signIn stores the flags.
SignInAnswer(r, ok) ==
    /\ BagIn(r, auInflight)
    /\ r.kind = "signIn"
    /\ auInflight' = Resume(auInflight, r)
    /\ IF ok
       THEN /\ authStored' = r.user
            /\ auEvents' = Notify(r.user)
            /\ authRemember' = IF r.remember THEN "true" ELSE "false"
            /\ authActive' = IF r.remember THEN authActive ELSE TRUE
       ELSE UNCHANGED <<authStored, auEvents, authRemember, authActive>>
    /\ UNCHANGED <<auUser, auSession, auProfile, auLoading, auMounted,
                   auCalls, auBoot>>

\* A page calls signOut().
signOut ==
    /\ auMounted
    /\ auCalls < MaxAuthCalls
    /\ auInflight' = Suspend(auInflight, AuthCall("signOut", 0, FALSE))
    /\ auCalls' = auCalls + 1
    /\ auBoot' = [auBoot EXCEPT !.touched = TRUE]
    /\ UNCHANGED <<authStored, authRemember, authActive, auUser, auSession,
                   auProfile, auLoading, auMounted, auEvents>>

\* supabase.auth.signOut() answers: on an error signOut throws; else the
\* persisted session is removed and the listeners are told.
SignOutAnswer(r, ok) ==
    /\ BagIn(r, auInflight)
    /\ r.kind = "signOut"
    /\ auInflight' = Resume(auInflight, r)
    /\ IF ok
       THEN /\ authStored' = 0
            /\ auEvents' = Notify(0)
       ELSE UNCHANGED <<authStored, auEvents>>
    /\ UNCHANGED <<authRemember, authActive, auUser, auSession, auProfile,
                   auLoading, auMounted, auCalls, auBoot>>

\* A page calls refreshProfile(): if (user) fetchProfile(user.id).
refreshProfile ==
    /\ auMounted
    /\ auUser # 0
    /\ auCalls < MaxAuthCalls
    /\ auInflight' =
          Suspend(auInflight, AuthCall("refreshProfile", auUser, FALSE))
    /\ auCalls' = auCalls + 1
    /\ UNCHANGED <<authStored, authRemember, authActive, auUser, auSession,
                   auProfile, auLoading, auMounted, auEvents, auBoot>>

\* AuthProvider as first rendered: nothing signed in, nothing fetched.
ProviderUnmounted ==
    /\ auUser = 0
    /\ auSession = 0
    /\ auProfile = 0
    /\ auLoading = TRUE
    /\ auMounted = FALSE
    /\ auInflight = EmptyBag
    /\ auEvents = <<>>

\* The browser is closed and opened again: the page and its calls are
\* gone, the session storage is empty, the local storage and the
\* collaborator's persisted session stay.
BrowserRestart ==
    /\ auMounted
    /\ authActive' = FALSE
    /\ auUser' = 0
    /\ auSession' = 0
    /\ auProfile' = 0
    /\ auLoading' = TRUE
    /\ auMounted' = FALSE
    /\ auInflight' = EmptyBag
    /\ auEvents' = <<>>
    /\ UNCHANGED <<authStored, authRemember, auCalls, auBoot>>

\* A first visit: no persisted session, no flags.
AuthInit ==
    /\ authStored = 0
    /\ authRemember = "absent"
    /\ authActive = FALSE
    /\ ProviderUnmounted
    /\ auCalls = 0
    /\ auBoot = [stored |-> 0, remember |-> "absent", active |-> FALSE,
                 got |-> "pending", signedOut |-> FALSE, touched |-> FALSE]

AuthIdle == AuthInit

\* ========================================================================
\* Specifications
\* ========================================================================
vars ==
    <<feedVars, csVars, thVars, likeVars, hlVars, slugVars, ppVars, wpVars,
      dpVars, stVars, navVars, taVars, clickVars, authVars>>

\* The variables of the other components, which a step of one component
\* leaves alone.
\* The post pages.
postVars == <<ppVars, wpVars, dpVars>>

NotFeed ==
    <<csVars, thVars, likeVars, hlVars, slugVars, postVars, stVars,
      navVars, taVars,
      clickVars, authVars>>

NotComments ==
    <<feedVars, thVars, likeVars, hlVars, slugVars, postVars, stVars,
      navVars, taVars,
      clickVars, authVars>>

NotThread ==
    <<feedVars, likeVars, hlVars, slugVars, postVars, stVars,
      navVars, taVars,
      clickVars, authVars>>

NotLike ==
    <<feedVars, csVars, thVars, hlVars, slugVars, postVars, stVars,
      navVars, taVars,
      clickVars, authVars>>

NotHighlight ==
    <<feedVars, csVars, thVars, likeVars, slugVars, postVars, stVars,
      navVars, taVars,
      clickVars, authVars>>

NotSlug ==
    <<feedVars, csVars, thVars, likeVars, hlVars, postVars, stVars,
      navVars, taVars,
      clickVars, authVars>>

\* What a click on a MyPage link leaves alone.
NotPostsClick ==
    <<feedVars, csVars, thVars, likeVars, hlVars, slugVars, stVars, navVars,
      taVars,
      authVars>>

NotPosts == <<NotPostsClick, clickVars>>

NotStorage ==
    <<feedVars, csVars, thVars, likeVars, hlVars, slugVars, postVars,
      navVars, taVars,
      clickVars, authVars>>

NotAuth ==
    <<feedVars, csVars, thVars, likeVars, hlVars, slugVars, postVars,
      stVars, navVars, taVars, clickVars>>

NotTime ==
    <<feedVars, csVars, thVars, likeVars, hlVars, slugVars, postVars,
      stVars, navVars,
      clickVars, authVars>>

\* What a navigation, and an arrival at an unmounted instance, leave alone.
NotNav ==
    <<thVars, likeVars, hlVars, slugVars, stVars, wpVars, taVars,
      clickVars, authVars>>

\* In the specification of one component the other components are not
\* mounted and stay in their (first) initial state.
FeedIdle == FeedInit /\ numPublic = SmallFeed

CommentsIdle == CommentsInit /\ csPostId = 1 /\ ThreadIdle

LikeIdle ==
    /\ LikeInit
    /\ likeVariant = "post"
    /\ likeUser = FALSE
    /\ likesCount = 0

FeedNext ==
    \/ MainPageMount /\ UNCHANGED NotFeed
    \/ IntersectionSignal /\ UNCHANGED NotFeed
    \/ \E s \in SortOption :
          handleSortChange(s) /\ UNCHANGED NotFeed
    \/ \E f \in feedInflight :
          FetchPostsRows(f) /\ UNCHANGED NotFeed
    \/ \E f \in feedInflight :
          FetchPostsError(f) /\ UNCHANGED NotFeed
    \/ \E f \in feedInflight :
          FetchPostsApply(f) /\ UNCHANGED NotFeed

CommentsNext ==
    \/ CommentSectionMount /\ UNCHANGED NotComments
    \/ \E p \in PostIds : PostSwitch(p) /\ UNCHANGED NotComments
    \/ handleLoadMore /\ UNCHANGED NotComments
    \/ handleCommentUpdated /\ UNCHANGED NotComments
    \/ \E f \in BagToSet(csInflight), ok \in BOOLEAN :
          FetchCommentsCount(f, ok) /\ UNCHANGED NotComments
    \/ \E f \in BagToSet(csInflight) :
          FetchCommentsRows(f) /\ UNCHANGED NotComments
    \/ \E f \in BagToSet(csInflight) :
          FetchCommentsError(f) /\ UNCHANGED NotComments
    \/ \E f \in BagToSet(csInflight) :
          FetchCommentsApply(f) /\ UNCHANGED NotComments

ThreadNext ==
    \/ CommentSectionMount /\ UNCHANGED <<thVars, NotThread>>
    \/ \E f \in BagToSet(csInflight), ok \in BOOLEAN :
          FetchCommentsCount(f, ok) /\ UNCHANGED <<thVars, NotThread>>
    \/ \E f \in BagToSet(csInflight) :
          FetchCommentsRows(f) /\ UNCHANGED <<thVars, NotThread>>
    \/ \E f \in BagToSet(csInflight) :
          FetchCommentsError(f) /\ UNCHANGED <<thVars, NotThread>>
    \/ \E f \in BagToSet(csInflight) :
          ThreadFetchApply(f) /\ UNCHANGED NotThread
    \/ \E id \in RenderedIds(comments) :
          ToggleReplyInput(id) /\ UNCHANGED NotThread
    \/ \E host \in {0} \cup showReplyInput :
          CommentInputSubmit(host) /\ UNCHANGED NotThread
    \/ \E id \in RenderedIds(comments) :
          OpenDeleteModal(id) /\ UNCHANGED NotThread
    \/ \E id \in showDeleteModal :
          CancelDeleteModal(id) /\ UNCHANGED NotThread
    \/ \E id \in showDeleteModal :
          ConfirmDelete(id) /\ UNCHANGED NotThread
    \/ \E m \in csMutations, fails \in BOOLEAN :
          CommentServer(m, fails) /\ UNCHANGED NotThread
    \/ \E m \in csMutations :
          CommentMutationFailed(m) /\ UNCHANGED NotThread
    \/ \E m \in csMutations :
          CommentInputResume(m) /\ UNCHANGED NotThread
    \/ \E m \in csMutations :
          handleDeleteResume(m) /\ UNCHANGED NotThread

LikeNext ==
    \/ LikeMount /\ UNCHANGED NotLike
    \/ handleLike /\ UNCHANGED NotLike
    \/ \E r \in BagToSet(likeInflight), fails \in BOOLEAN :
          LikeServer(r, fails) /\ UNCHANGED NotLike
    \/ \E r \in BagToSet(likeInflight) :
          CheckIfLikedResume(r) /\ UNCHANGED NotLike
    \/ \E r \in BagToSet(likeInflight) :
          DetailPageLikeResume(r) /\ UNCHANGED NotLike
    \/ \E r \in BagToSet(likeInflight) :
          CommentItemLikeResume(r) /\ UNCHANGED NotLike

HighlightNext == HighlightCall /\ UNCHANGED NotHighlight

SlugNext == GenerateSlugCall /\ UNCHANGED NotSlug

StorageNext ==
    \/ \E key \in StorageKeys, throws \in BOOLEAN :
          getItem(key, throws) /\ UNCHANGED NotStorage
    \/ \E key \in StorageKeys, value \in StorageValues, throws \in BOOLEAN :
          setItem(key, value, throws) /\ UNCHANGED NotStorage
    \/ \E key \in StorageKeys, throws \in BOOLEAN :
          removeItem(key, throws) /\ UNCHANGED NotStorage
    \/ \E throws \in BOOLEAN : clear(throws) /\ UNCHANGED NotStorage

\* The answers of the collaborator and the calls of the listener.
AuthAnswers ==
    \/ \E r \in BagToSet(auInflight), outcome \in AuthOutcomes :
          GetSessionAnswer(r, outcome) /\ UNCHANGED NotAuth
    \/ \E r \in BagToSet(auInflight), outcome \in AuthOutcomes :
          InitSignOutAnswer(r, outcome) /\ UNCHANGED NotAuth
    \/ \E r \in BagToSet(auInflight), found \in BOOLEAN :
          ProfileAnswer(r, found) /\ UNCHANGED NotAuth
    \/ AuthListener /\ UNCHANGED NotAuth
    \/ \E r \in BagToSet(auInflight), ok \in BOOLEAN :
          SignInAnswer(r, ok) /\ UNCHANGED NotAuth
    \/ \E r \in BagToSet(auInflight), ok \in BOOLEAN :
          SignOutAnswer(r, ok) /\ UNCHANGED NotAuth

AuthNext ==
    \/ AuthMount /\ UNCHANGED NotAuth
    \/ AuthAnswers
    \/ \E u \in Users, rememberMe \in BOOLEAN :
          signIn(u, rememberMe) /\ UNCHANGED NotAuth
    \/ signOut /\ UNCHANGED NotAuth
    \/ refreshProfile /\ UNCHANGED NotAuth
    \/ BrowserRestart /\ UNCHANGED NotAuth

TimeNext ==
    \/ TimeAgoCall /\ UNCHANGED NotTime
    \/ \E step \in TimeSteps : ClockAdvance(step) /\ UNCHANGED NotTime

NavNext ==
    \/ ppPage = "main" /\ MainPageMount /\ UNCHANGED NotFeed
    \/ IntersectionSignal /\ UNCHANGED NotFeed
    \/ \E f \in feedInflight : FetchPostsRows(f) /\ UNCHANGED NotFeed
    \/ \E f \in feedInflight : FetchPostsError(f) /\ UNCHANGED NotFeed
    \/ \E f \in feedInflight : FetchPostsApply(f) /\ UNCHANGED NotFeed
    \/ NavigateToPost /\ UNCHANGED NotNav
    \/ DetailPageMount /\ UNCHANGED NotPosts
    \/ \E r \in ppInflight : FetchPostSelect(r) /\ UNCHANGED NotPosts
    \/ \E r \in ppInflight : FetchPostProfile(r) /\ UNCHANGED NotPosts
    \/ \E r \in ppInflight : FetchPostViews(r) /\ UNCHANGED NotPosts
    \/ \E r \in ppInflight, fails \in BOOLEAN :
          ViewsUpdateServer(r, fails) /\ UNCHANGED NotPosts
    \/ \E r \in ppInflight : FetchPostApply(r) /\ UNCHANGED NotPosts
    \/ DetailRendered /\ CommentSectionMount /\ UNCHANGED NotComments
    \/ \E f \in BagToSet(csInflight), ok \in BOOLEAN :
          FetchCommentsCount(f, ok) /\ UNCHANGED NotComments
    \/ \E f \in BagToSet(csInflight) :
          FetchCommentsRows(f) /\ UNCHANGED NotComments
    \/ \E f \in BagToSet(csInflight) :
          FetchCommentsError(f) /\ UNCHANGED NotComments
    \/ \E f \in BagToSet(csInflight) :
          FetchCommentsApply(f) /\ UNCHANGED NotComments
    \/ NavigateToMain /\ UNCHANGED NotNav
    \/ \E o \in navOrphans :
          OrphanArrives(o) /\ UNCHANGED <<postVars, NotNav>>

PostsNext ==
    \/ WritePageMount /\ UNCHANGED <<dpVars, NotPosts>>
    \/ EditPageMount /\ UNCHANGED <<dpVars, NotPosts>>
    \/ \E r \in wpInflight :
          EditFetchServer(r) /\ UNCHANGED <<dpVars, NotPosts>>
    \/ \E r \in wpInflight :
          EditFetchResume(r) /\ UNCHANGED <<dpVars, NotPosts>>
    \/ \E t \in WriteTitles : SetTitle(t) /\ UNCHANGED <<dpVars, NotPosts>>
    \/ handleSubmit /\ UNCHANGED <<dpVars, NotPosts>>
    \/ \E r \in wpInflight :
          SlugLookupServer(r) /\ UNCHANGED <<dpVars, NotPosts>>
    \/ \E r \in wpInflight, suffix \in RandomSuffixes :
          SubmitAfterLookup(r, suffix) /\ UNCHANGED <<dpVars, NotPosts>>
    \/ \E r \in wpInflight, fails \in BOOLEAN :
          PostWriteServer(r, fails) /\ UNCHANGED <<dpVars, NotPosts>>
    \/ \E r \in wpInflight :
          SubmitFinish(r) /\ UNCHANGED <<dpVars, NotPosts>>
    \/ SubmitNavigate /\ UNCHANGED <<dpVars, NotPosts>>
    \/ DetailPageMount /\ UNCHANGED NotPosts
    \/ \E u \in {0} \cup Users : DetailUserChange(u) /\ UNCHANGED NotPosts
    \/ \E id \in RouteIds : DetailRouteChange(id) /\ UNCHANGED NotPosts
    \/ \E r \in ppInflight : FetchPostSelect(r) /\ UNCHANGED NotPosts
    \/ \E r \in ppInflight : FetchPostProfile(r) /\ UNCHANGED NotPosts
    \/ \E r \in ppInflight : FetchPostViews(r) /\ UNCHANGED NotPosts
    \/ \E r \in ppInflight, fails \in BOOLEAN :
          ViewsUpdateServer(r, fails) /\ UNCHANGED NotPosts
    \/ \E r \in ppInflight : FetchPostApply(r) /\ UNCHANGED NotPosts
    \/ DetailOpenDeleteModal /\ UNCHANGED NotPosts
    \/ DetailCancelDelete /\ UNCHANGED NotPosts
    \/ DetailConfirmDelete /\ UNCHANGED NotPosts
    \/ \E r \in ppInflight, fails \in BOOLEAN :
          PostDeleteServer(r, fails) /\ UNCHANGED NotPosts
    \/ \E r \in ppInflight : DetailDeleteResume(r) /\ UNCHANGED NotPosts
    \/ MyPageMount /\ UNCHANGED NotPosts
    \/ \E r \in ppInflight : MyPostsServer(r) /\ UNCHANGED NotPosts
    \/ \E r \in ppInflight : MyPostsApply(r) /\ UNCHANGED NotPosts
    \/ \E id \in mpPosts : handleDeletePost(id) /\ UNCHANGED NotPosts
    \/ \E r \in ppInflight : MyDeleteResume(r) /\ UNCHANGED NotPosts
    \/ \E p \in DOMAIN InitialPosts :
          MyCardClick(p) /\ UNCHANGED NotPostsClick
    \/ \E p \in DOMAIN InitialPosts :
          MyEditClick(p) /\ UNCHANGED NotPostsClick

\* The pages and the comment components idle.
ViewsIdle ==
    FeedIdle /\ CommentsIdle /\ LikeIdle /\ NavIdle /\ TimeIdle /\ AuthIdle

\* The pure functions not being called, the post pages not opened, the
\* storage not used.
UtilsIdle ==
    /\ HighlightIdle /\ SlugIdle /\ PostsIdle /\ StorageIdle /\ NavIdle
    /\ TimeIdle /\ AuthIdle

FeedSpecInit == FeedInit /\ CommentsIdle /\ LikeIdle /\ UtilsIdle

CommentsSpecInit ==
    FeedIdle /\ CommentsInit /\ ThreadIdle /\ LikeIdle /\ UtilsIdle

ThreadSpecInit == FeedIdle /\ ThreadInit /\ LikeIdle /\ UtilsIdle

LikeSpecInit == FeedIdle /\ CommentsIdle /\ LikeInit /\ UtilsIdle

HighlightSpecInit ==
    ViewsIdle /\ HighlightInit /\ SlugIdle /\ PostsIdle /\ StorageIdle

SlugSpecInit ==
    ViewsIdle /\ HighlightIdle /\ SlugInit /\ PostsIdle /\ StorageIdle

PostsSpecInit ==
    ViewsIdle /\ HighlightIdle /\ SlugIdle /\ PostsInit /\ StorageIdle

StorageSpecInit ==
    ViewsIdle /\ HighlightIdle /\ SlugIdle /\ PostsIdle /\ StorageInit

NavSpecInit ==
    NavInit /\ ThreadIdle /\ LikeIdle /\ HighlightIdle /\ SlugIdle
      /\ StorageIdle /\ TimeIdle /\ AuthIdle

TimeSpecInit ==
    /\ FeedIdle /\ CommentsIdle /\ LikeIdle /\ NavIdle
    /\ HighlightIdle /\ SlugIdle /\ PostsIdle /\ StorageIdle
    /\ TimeInit /\ AuthIdle

AuthSpecInit ==
    /\ FeedIdle /\ CommentsIdle /\ LikeIdle /\ NavIdle
    /\ HighlightIdle /\ SlugIdle /\ PostsIdle /\ StorageIdle
    /\ TimeIdle /\ AuthInit

SpecFeed == FeedSpecInit /\ [][FeedNext]_vars

SpecComments == CommentsSpecInit /\ [][CommentsNext]_vars

SpecThread == ThreadSpecInit /\ [][ThreadNext]_vars

SpecLike == LikeSpecInit /\ [][LikeNext]_vars

SpecHighlight == HighlightSpecInit /\ [][HighlightNext]_vars

SpecSlug == SlugSpecInit /\ [][SlugNext]_vars

SpecPosts == PostsSpecInit /\ [][PostsNext]_vars

SpecStorage == StorageSpecInit /\ [][StorageNext]_vars

SpecNav == NavSpecInit /\ [][NavNext]_vars

SpecTime == TimeSpecInit /\ [][TimeNext]_vars

SpecAuth == AuthSpecInit /\ [][AuthNext]_vars

\* The effect runs once the provider is rendered, every call is answered
\* and the listener is called for every change it was told of.
SpecAuthLive ==
    /\ SpecAuth
    /\ WF_vars(AuthMount /\ UNCHANGED NotAuth)
    /\ WF_vars(AuthAnswers)

\* ------------------------------------------------------------------------
\* Feed pager: properties
\* ------------------------------------------------------------------------

\* C1: at most one fetchPosts call is in flight at any moment; in
\* particular a fetch issued by an intersection signal is the only one
\* outstanding, and no two outstanding fetches ask for the same page.
C1_AtMostOneFetchInFlight ==
    /\ Cardinality(feedInflight) <= 1
    /\ feedEvent.kind = "signal" => feedInflight = {feedEvent.req}
    /\ \A f, g \in feedInflight : f.pageNum = g.pageNum => f = g

\* C2: a response of a fetch issued under a sort mode that is no longer the
\* current one is discarded: its arrival leaves the accumulated list and the
\* exhaustion flag as they were.
C2_StaleResponseDiscarded ==
    (feedEvent.kind = "applied" /\ feedEvent.req.sort # sortBy)
        => /\ posts = feedEvent.before[1]
           /\ hasMore = feedEvent.before[3]

\* C4: a step that changes the sort mode leaves the list empty, the page
\* index 0 and the exhaustion flag at 'more available', and issues exactly
\* one fetch: page 0 of the new mode with replace semantics; selecting the
\* active mode changes nothing of the component.
C4_SortChangeResets ==
    [][ /\ (sortBy' # sortBy \/ feedEvent'.kind = "sortChanged") =>
            /\ feedEvent'.kind = "sortChanged"
            /\ sortBy' # sortBy
            /\ posts' = <<>>
            /\ page' = 0
            /\ hasMore' = TRUE
            /\ \E f \in feedInflight' :
                  /\ feedInflight' = feedInflight \cup {f}
                  /\ f \notin feedInflight
                  /\ f.pageNum = 0
                  /\ f.sort = sortBy'
                  /\ f.reset = TRUE
                  /\ f.stage = "posts"
        /\ feedEvent'.kind = "sortSame" =>
            UNCHANGED <<posts, loading, loadingMore, hasMore, sortBy, page,
                        feedInflight>>
      ]_vars

\* C4 witness: the sort mode was changed after page 1 had been reached and
\* posts had been accumulated.
C4_Witness ==
    /\ feedEvent.kind = "sortChanged"
    /\ feedEvent.before[2] >= 1
    /\ Len(feedEvent.before[1]) > 0
    /\ posts = <<>>

\* C5: a response with fewer rows than the page size sets the exhaustion
\* flag, a signal issues a fetch only while the flag is clear, and the
\* accumulated list never holds the same post twice.
C5_ExhaustionAndNoDuplicates ==
    /\ (feedEvent.kind = "applied"
          /\ Len(feedEvent.req.rows) < POSTS_PER_PAGE) => ~hasMore
    /\ feedEvent.kind = "signal" => feedEvent.before[3] = TRUE
    /\ NoDuplicates(posts)

\* C6: when a fetch issued by an intersection signal fails, the pager state
\* (list, page index, exhaustion flag) equals the state before that signal.
C6_FailureLeavesPagerState ==
    (feedEvent.kind = "fetchFailed" /\ feedEvent.req.trigger = "signal")
        => PagerState = feedEvent.req.pre

\* ------------------------------------------------------------------------
\* Comment section: properties
\* ------------------------------------------------------------------------

\* C3: the arrival of a response (count or rows) of a fetch issued for a
\* post that is no longer the current postId is not applied: it leaves the
\* comment list, the total count, the page number and the has-more flag
\* unchanged.
C3_StaleCommentResponseNotApplied ==
    [][ (csEvent'.kind \in {"count", "applied"}
           /\ csEvent'.postId # csPostId')
          => UNCHANGED <<comments, totalCount, csPage, csHasMore>> ]_vars

\* C10: in the rendered tree a reply appears only under a loaded top-level
\* comment whose id is the reply's parent_id, a reply without a loaded
\* top-level parent does not appear, and no comment appears twice.
C10_TreeWellFormed ==
    LET tree == RenderedTree(comments)
        LoadedTop(pid) == \E i \in 1..Len(comments) :
                             comments[i].id = pid /\ IsTopLevel(comments[i])
    IN  /\ \A k \in 1..Len(tree) :
              tree[k].isReply =>
                /\ tree[k].comment.parent_id = tree[k].parentCommentId
                /\ LoadedTop(tree[k].parentCommentId)
        /\ \A i \in 1..Len(comments) :
              (~IsTopLevel(comments[i]) /\ ~LoadedTop(comments[i].parent_id))
                => \A k \in 1..Len(tree) :
                      tree[k].comment.id # comments[i].id
        /\ \A k1, k2 \in 1..Len(tree) :
              tree[k1].comment.id = tree[k2].comment.id => k1 = k2

\* The step applies the response of a reload: the only fetch in flight
\* is a fetchComments(page) without append for the post on display, whose
\* comments are in the list.
ReloadApplied ==
    /\ csEvent'.kind = "applied"
    /\ comments # <<>>
    /\ \A i \in 1..Len(comments) : comments[i].post_id = csPostId
    /\ BagCardinality(csInflight) = 1
    /\ \E f \in BagToSet(csInflight) :
          /\ f.stage = "profiles"
          /\ ~f.append
          /\ f.postId = csPostId
          /\ f.pageNum = csPage

\* C21: after a comment is edited, soft-deleted or replied to while pages
\* 1..p of the comments are loaded, the reload triggered by that action
\* leaves every comment that was displayed and still exists in the list,
\* and the has-more flag true exactly when fewer comments are loaded than
\* the total count.
C21_ReloadKeepsLoadedPages ==
    [][ReloadApplied =>
          /\ \A i \in 1..Len(comments) :
                \E j \in 1..Len(comments') : comments'[j].id = comments[i].id
          /\ csHasMore' <=>
                (Len(comments') < CountComments(dbComments, csPostId))]_vars

\* ------------------------------------------------------------------------
\* Comment thread: properties
\* ------------------------------------------------------------------------

\* C11: in the rendered tree the replies of a top-level comment are in
\* non-decreasing created_at order, and the top-level comments are all
\* rendered, in the relative order they have in the loaded list.
C11_RepliesOldestFirst ==
    LET tree == RenderedTree(comments)
        Pos(c) == CHOOSE i \in 1..Len(comments) : comments[i] = c
    IN  /\ \A k \in 1..(Len(tree) - 1) :
              (tree[k].isReply /\ tree[k + 1].isReply)
                => tree[k].comment.created_at
                     <= tree[k + 1].comment.created_at
        /\ \A k1, k2 \in 1..Len(tree) :
              (~tree[k1].isReply /\ ~tree[k2].isReply /\ k1 < k2)
                => Pos(tree[k1].comment) < Pos(tree[k2].comment)
        /\ \A i \in 1..Len(comments) :
              IsTopLevel(comments[i])
                => \E k \in 1..Len(tree) :
                      ~tree[k].isReply /\ tree[k].comment = comments[i]

\* A group with two replies that the loaded list holds newest first and the
\* tree shows oldest first.
C11_Witness ==
    LET tree == RenderedTree(comments)
    IN  \E k \in 1..(Len(tree) - 1) :
           /\ tree[k].isReply /\ tree[k + 1].isReply
           /\ tree[k].comment.created_at < tree[k + 1].comment.created_at
           /\ \E i, j \in 1..Len(comments) :
                  /\ i < j
                  /\ comments[i] = tree[k + 1].comment
                  /\ comments[j] = tree[k].comment

\* C12: every stored comment's parent_id is null or the id of a stored
\* comment whose own parent_id is null.
C12_ParentIsTopLevel ==
    \A i \in 1..Len(dbComments) :
        \/ dbComments[i].parent_id = 0
        \/ dbComments[dbComments[i].parent_id].parent_id = 0

\* A reply sent from the composer opened on a reply has been stored.
C12_Witness ==
    \E m \in csMutations :
        /\ m.op = "insert"
        /\ m.result = "ok"
        /\ m.host # 0
        /\ dbComments[m.host].parent_id # 0
        /\ \E i \in 1..Len(dbComments) :
               /\ dbComments[i].parent_id = m.parentId
               /\ dbComments[i].created_at > dbComments[m.host].created_at

\* C13: a delete only sets deleted_at and removes no record; a deleted
\* comment on display stays in the loaded list; its replies are rendered
\* under it; its body is the placeholder; and no reply composer, like, edit
\* or delete action (button or confirmation modal) is offered on it.
C13_SoftDeleteOnly ==
    /\ [](LET tree == RenderedTree(comments)
          IN  /\ \A k \in 1..Len(tree) :
                    isDeleted(tree[k].comment) =>
                      /\ ItemBody(tree[k].comment) = "placeholder"
                      /\ ItemActions(tree[k].comment) = {}
                      /\ ~ComposerShown(tree[k].comment, showReplyInput)
                      /\ ~ModalShown(tree[k].comment, showDeleteModal)
              /\ \A i, j \in 1..Len(comments) :
                    (IsTopLevel(comments[i]) /\ isDeleted(comments[i])
                       /\ comments[j].parent_id = comments[i].id)
                      => \E k \in 1..Len(tree) :
                            /\ tree[k].comment = comments[j]
                            /\ tree[k].parentCommentId = comments[i].id)
    /\ [][ /\ Len(dbComments') >= Len(dbComments)
           /\ \A i \in 1..Len(dbComments) :
                 dbComments'[i] =
                   [dbComments[i] EXCEPT
                      !.deleted_at = dbComments'[i].deleted_at]
           /\ \A i \in 1..Len(comments) :
                 isDeleted(dbComments[comments[i].id])
                   => \E j \in 1..Len(comments') :
                         comments'[j].id = comments[i].id ]_vars

\* The inserts sent by this step.
SentNow ==
    {m \in csMutations' :
        m.op = "insert" /\ m.seq \notin {x.seq : x \in csMutations}}

\* C22: no reply is ever submitted whose parent_id refers to a comment that
\* is soft-deleted at the time the reply is submitted, whichever rendered
\* comment or reply the composer was opened on.
C22_NoReplyToDeleted ==
    [][\A m \in SentNow :
          m.parentId # 0 => dbComments[m.parentId].deleted_at = 0]_vars

\* ------------------------------------------------------------------------
\* Like toggle: properties
\* ------------------------------------------------------------------------

\* The last four history entries are: a like clicked while the flag was
\* clear and no other toggle was outstanding, its successful completion, then an
\* unlike clicked, and its successful completion.
LikeThenUnlikeDone ==
    LET n == Len(likeLog)
    IN  /\ n >= 4
        /\ likeLog[n - 3].ev = "click" /\ likeLog[n - 3].op = "insert"
        /\ likeLog[n - 3].liked = FALSE /\ likeLog[n - 3].quiet
        /\ likeLog[n - 2].ev = "done" /\ likeLog[n - 2].op = "insert"
        /\ likeLog[n - 2].result = "ok"
        /\ likeLog[n - 1].ev = "click" /\ likeLog[n - 1].op = "delete"
        /\ likeLog[n].ev = "done" /\ likeLog[n].op = "delete"
        /\ likeLog[n].result = "ok"

C8_DuplicateLikeReconciled ==
    LET n == Len(likeLog)
    IN  (/\ n >= 1
         /\ likeLog[n].ev = "done"
         /\ likeLog[n].op = "insert"
         /\ likeLog[n].result = "conflict")
        => /\ isLiked = TRUE
           /\ likesCount = likeLog[n].count
           /\ likeNotice # "failure"

\* C9: when the response of a like insert or delete that failed for another
\* reason has been handled, the displayed count and the liked flag are what
\* they were before the response and a failure notice is shown.
C9_FailureRollsBack ==
    LET n == Len(likeLog)
    IN  (/\ n >= 1
         /\ likeLog[n].ev = "done"
         /\ likeLog[n].op \in {"insert", "delete"}
         /\ likeLog[n].result = "failed")
        => /\ likesCount = likeLog[n].count
           /\ isLiked = likeLog[n].liked
           /\ likeNotice = "failure"

\* The toggles of kind op that the collaborator carried out, by the
\* responses handled so far.
Applied(op) ==
    Cardinality({k \in 1..Len(likeLog) :
                    /\ likeLog[k].ev = "done"
                    /\ likeLog[k].op = op
                    /\ likeLog[k].result = "ok"})

\* The user has clicked and every response has been handled.
LikeSettled ==
    /\ likeMounted
    /\ likeUser
    /\ likeLog # <<>>
    /\ likeInflight = EmptyBag

\* The count shown at load: the one the first click or response found.
CountAtLoad == likeLog[1].count

\* C25: for the post and comment like toggles, after any sequence of
\* clicks by one user, including clicks made while an earlier toggle is
\* still awaiting its response, once all responses have arrived the liked
\* flag equals the existence of the join record, the displayed count
\* differs from the count shown at load by the net change in that user's
\* like, and the displayed count is never negative.
C25_TogglesSettle ==
    /\ likesCount >= 0
    /\ LikeSettled =>
          /\ isLiked = likeRecord
          /\ likesCount - CountAtLoad = Applied("insert") - Applied("delete")

\* ------------------------------------------------------------------------
\* highlightText: properties
\* ------------------------------------------------------------------------

\* The text of the spans of an array, concatenated in order.
SpansText(parts) == Concat([k \in 1..Len(parts) |-> parts[k].text])

\* The highlighted spans of an array.
Highlighted(parts) == SelectSeq(parts, LAMBDA p : p.type = "highlight")

\* Two strings equal up to the case of their letters.
SameIgnoringCase(s, t) ==
    /\ Len(s) = Len(t)
    /\ \A i \in 1..Len(s) : ToUpper(s[i]) = ToUpper(t[i])

\* The query occurs in s literally, ignoring case, at 0-based offset off.
OccursAt(q, s, off) ==
    /\ off + Len(q) <= Len(s)
    /\ SameIgnoringCase(q, SubSeq(s, off + 1, off + Len(q)))

\* The 0-based offsets of the leftmost non-overlapping occurrences of q in
\* s at or after from.
RECURSIVE Occurrences(_, _, _)
Occurrences(q, s, from) ==
    LET offs == {off \in from..Len(s) : OccursAt(q, s, off)}
    IN  IF offs = {} \/ q = <<>> THEN <<>>
        ELSE LET off == CHOOSE o \in offs : \A p \in offs : o <= p
             IN  <<off>> \o Occurrences(q, s, off + Len(q))

\* The 0-based offset in the text at which span k of the array starts.
SpanStart(parts, k) == Len(SpansText(SubSeq(parts, 1, k - 1)))

\* C18: the spans highlightText returns, concatenated in order, are the
\* text exactly, and for an empty or all-white-space query the result is
\* the text as a single plain span.
C18_SpansConcatenateToText ==
    hlDone =>
        /\ SpansText(hlParts) = hlText
        /\ IsBlank(hlQuery) => hlParts = <<PlainSpan(hlText)>>

\* C18 witness: a call with a query containing a regular-expression
\* character returned plain and highlighted spans, text remaining after
\* the last match.
C18_Witness ==
    /\ hlDone
    /\ \E i \in 1..Len(hlQuery) : hlQuery[i] \in RegExpSpecial
    /\ Len(hlParts) >= 3
    /\ hlParts[Len(hlParts)].type = "plain"
    /\ Highlighted(hlParts) # <<>>

\* C19: for a query that is not blank the highlighted spans are, in order,
\* exactly the non-overlapping occurrences of the query in the text found
\* left to right, ignoring case and taking every character of the query
\* literally; "the cat sat" with "at" has exactly two highlighted spans.
C19_EveryOccurrenceMarked ==
    (hlDone /\ ~IsBlank(hlQuery)) =>
        LET occ == Occurrences(hlQuery, hlText, 0)
            his == SelectSeq([k \in 1..Len(hlParts) |->
                                 [type |-> hlParts[k].type,
                                  text |-> hlParts[k].text,
                                  at |-> SpanStart(hlParts, k)]],
                             LAMBDA p : p.type = "highlight")
        IN  /\ Len(his) = Len(occ)
            /\ \A k \in 1..Len(his) :
                  /\ his[k].at = occ[k]
                  /\ SameIgnoringCase(his[k].text, hlQuery)
            /\ (hlText = TheCatSat /\ hlQuery = At) =>
                  /\ Len(his) = 2
                  /\ \A k \in 1..2 : his[k].text = At

\* C19 witness: a call whose query contains a dot marked an occurrence that
\* differs from the query in case, next to text left plain.
C19_Witness ==
    /\ hlDone
    /\ \E i \in 1..Len(hlQuery) : hlQuery[i] = "."
    /\ \E k \in 1..Len(hlParts) :
          /\ hlParts[k].type = "highlight"
          /\ hlParts[k].text # hlQuery
    /\ \E k \in 1..Len(hlParts) : hlParts[k].type = "plain"

\* ------------------------------------------------------------------------
\* generateSlug: properties
\* ------------------------------------------------------------------------

\* What holds of every result whatever the title: the two examples, the
\* length limit, and equal results for equal titles.
SlugExamplesAndLimit ==
    /\ \A k \in 1..Len(slugResults) :
          /\ slugTitle = HelloWorldFoo => slugResults[k] = hello_world_foo
          /\ slugTitle = <<>> => slugResults[k] = <<>>
          /\ Len(slugResults[k]) <= SLUG_MAX_LENGTH
    /\ \A j, k \in 1..Len(slugResults) : slugResults[j] = slugResults[k]

HyphensTidy(r) ==
    /\ r # <<>> => (r[1] # "-" /\ r[Len(r)] # "-")
    /\ \A i \in 1..(Len(r) - 1) : ~(r[i] = "-" /\ r[i + 1] = "-")

\* C29: for every title, generateSlug's result neither begins nor ends
\* with a hyphen and contains no two consecutive hyphens, and applying
\* generateSlug to its own result returns that result unchanged.
C29_TidyAndIdempotent ==
    \A k \in 1..Len(slugResults) :
        /\ HyphensTidy(slugResults[k])
        /\ generateSlug(slugResults[k]) = slugResults[k]

\* ------------------------------------------------------------------------
\* Post pages: properties
\* ------------------------------------------------------------------------

\* C14: when WritePage or EditPage submits a post whose generated slug the
\* lookup found on another post, the slug the insert / update carries is
\* that slug with a hyphen and a random suffix appended, not the colliding
\* slug itself.
C14_CollisionWritesSuffixedSlug ==
    \A k \in 1..Len(postWrites) :
        LET w == postWrites[k]
        IN  (w.by \in {"WritePage", "EditPage"} /\ w.collided) =>
                /\ w.slug # w.looked
                /\ \E x \in RandomSuffixes :
                      w.slug = w.looked \o <<"-">> \o x

\* C17: every update or delete the client issues on a post (EditPage save,
\* DetailPage delete, MyPage delete, the view-count update of
\* DetailPage.fetchPost) is issued while the signed-in user is that post's
\* author, and EditPage never shows its form populated to a user who is not
\* the author: once its load is over it has either left or holds the
\* user's own post.
C17_OnlyAuthorWritesPost ==
    /\ \A k \in 1..Len(postWrites) :
          LET w == postWrites[k]
          IN  w.op \in {"update", "delete", "views"} =>
                  (w.user # 0 /\ w.user = w.author)
    /\ (ppPage = "edit" /\ wpPost # NoPost) => wpPost.author_id = ppUser
    /\ (ppPage = "edit" /\ ppMounted /\ ~wpLoading) => wpPost # NoPost

\* One visit to the detail page of the post the route names is over: the
\* page is mounted and no fetchPost is awaiting an answer.
VisitOver ==
    /\ ppPage = "detail"
    /\ ppMounted
    /\ ppId \in PostIdsInDb
    /\ \A r \in ppInflight : r.kind # "fetchPost"

\* C28: the stored view count of a post rises by exactly one per visit to
\* its detail page, in any interleaving of the read and update steps and
\* whether or not the signed-in user resolves during the visit: after the
\* one visit of a behaviour the count is its initial value plus one.
C28_OneViewPerVisit ==
    VisitOver => dbPosts[ppId].views = InitialPosts[ppId].views + 1

\* The post whose link was clicked on MyPage is still stored and the
\* route still carries the parameter MyPage navigated with.
ClickedPostOpen ==
    /\ mpClicked.id \in PostIdsInDb
    /\ ppId = ParamAsId(mpClicked.param)
    /\ ppMounted

\* C24: clicking a post card on the my-page opens the detail view of that
\* same post, and clicking its edit button opens the editor for that same
\* post, for posts with a slug and for posts without one: once the page
\* navigated to has loaded, it holds the post that was clicked.
C24_MyPageLinksOpenSamePost ==
    /\ (mpClicked.kind = "card" /\ ClickedPostOpen /\ ~dpLoading) =>
          (dpPost # NoPost /\ dpPost.id = mpClicked.id)
    /\ (mpClicked.kind = "edit" /\ ClickedPostOpen /\ ~wpLoading) =>
          (wpPost # NoPost /\ wpPost.id = mpClicked.id)

\* ------------------------------------------------------------------------
\* Storage: properties
\* ------------------------------------------------------------------------

\* C15: safeStorage and SafeStorageWrapper behave like a plain key-value map
\* whether the browser's storage is available, blocked or failing on some
\* calls: every getItem returns what the map holds for the key, that is the
\* value last set (any string, the empty one included), and null after
\* removeItem or clear and for a key never set.
C15_BehavesLikePlainMap ==
    stLast.op = "getItem" => stLast.result = stLast.expected

\* ------------------------------------------------------------------------
\* Navigation: properties
\* ------------------------------------------------------------------------

\* The state of the three views.
MainPageState ==
    <<posts, loading, loadingMore, hasMore, sortBy, page, observing>>

CommentSectionState == <<comments, csLoading, csHasMore, csPage, totalCount>>

DetailPageState == <<dpPost, dpLoading, dpShowDeleteModal>>

SecondsOfUnit(unit) ==
    CASE unit = "now" -> 0
      [] unit = "minute" -> SecondsPerMinute
      [] unit = "hour" -> SecondsPerMinute * MinutesPerHour
      [] unit = "day" -> SecondsPerDay
      [] unit = "week" -> DaysPerWeek * SecondsPerDay
      [] unit = "month" -> DaysPerMonth * SecondsPerDay
      [] unit = "year" -> DaysPerYear * SecondsPerDay

Denotes(label) == label.n * SecondsOfUnit(label.unit)

\* C30: for every elapsed time of at least 60 seconds, timeAgo returns a
\* label whose number is at least 1 (never '0' of any unit), and for
\* elapsed times e1 <= e2 the label of e2 never denotes a shorter duration
\* than the label of e1.
C30_NeverZeroAndMonotonic ==
    /\ \A k \in 1..Len(taLabels) :
          taLabels[k].elapsed >= SecondsPerMinute
              => (taLabels[k].label.n >= 1 /\ taLabels[k].label.unit # "now")
    /\ \A j, k \in 1..Len(taLabels) :
          taLabels[j].elapsed <= taLabels[k].elapsed
              => Denotes(taLabels[j].label) <= Denotes(taLabels[k].label)

\* ------------------------------------------------------------------------
\* AuthProvider: properties
\* ------------------------------------------------------------------------

\* Initialisation and every listener call have finished, and no page has
\* called signIn or signOut since the app started.
StartSettled ==
    /\ auMounted
    /\ auInflight = EmptyBag
    /\ auEvents = <<>>
    /\ ~auBoot.touched

\* The app started in a new browser session with a persisted session of a
\* user who had signed in without 'remember me'.
StartedForgetful ==
    /\ auBoot.stored # 0
    /\ auBoot.remember = "false"
    /\ ~auBoot.active

\* The app started with a persisted session of a user who had signed in
\* with 'remember me'.
StartedRemembered == auBoot.stored # 0 /\ auBoot.remember = "true"

C26_LoadingEnds == [](auMounted => <>(~auLoading \/ ~auMounted))

\* No listener call and no profile fetch is pending.
ProfileSettled ==
    /\ auEvents = <<>>
    /\ \A r \in BagToSet(auInflight) :
          r.kind \notin {"initProfile", "listenerProfile", "refreshProfile"}

\* C27: whenever the user is null and no auth callback or profile fetch is
\* still pending, the profile is null.
C27_NoProfileWithoutUser ==
    (auMounted /\ auUser = 0 /\ ProfileSettled) => auProfile = 0

====
